---- MODULE Spec2Model ----
(***************************************************************************)
(* View-mode camera choreography of the tour globe: the App request        *)
(* handlers (cloud transitions), the Globe effects that react to the       *)
(* rendered view mode and selection, the camera flights of the 3D engine,  *)
(* the AutoRotateController, the zoom governor (cameraConstraints) and the *)
(* venue camera lock.                                                      *)
(*                                                                         *)
(* Scheduling: JavaScript runs one task to completion, then drains the     *)
(* promise microtasks; React 18 (createRoot) batches the state updates of  *)
(* a task and commits them, with the effects, before the next timer,       *)
(* frame or input event is served.                                         *)
(***************************************************************************)
EXTENDS Integers, Sequences, FiniteSets, TLC

----------------------------------------------------------------------------
(* Bounds of the model *)

MaxRequests == 2        \* mode requests (clicks) of one run
MaxNow == 1200          \* the clock stops here (ms)
MaxPolls == 1           \* concurrent requestAnimationFrame polling loops
MaxRotateNow == 2400    \* the clock of the auto-rotate specification stops here
MaxZoomNow == 600       \* the clock of the zoom-governor specification stops here
MaxZoomPolls == 2       \* polling loops of the zoom-governor specification
MaxCameraRequests == 3  \* flight requests of the camera-manager specification

----------------------------------------------------------------------------
(* Program constants *)

WHEEL_COOLDOWN_MS == 1200
WHEEL_CLAMP_DELAY_MS == 150
VENUE_MIN_ZOOM == 500
VENUE_MAX_ZOOM == 1000
OVERVIEW_MIN_ZOOM == 2000000
OVERVIEW_MAX_ZOOM == 30000000
AUTO_OVERVIEW_MIN == 20000000
AUTO_OVERVIEW_MAX == 40000000
FREE_MIN_ZOOM == 1
POSITIVE_INFINITY == 2147483647
MAXIMUM_RADIUS == 6378137

None == "none"

\* The loaded itinerary. A coordinate is a set: {} is null, {d} is d degrees.
Stops == {"A", "B", "N"}
StopTable ==
    [A |-> [order |-> 1, lat |-> {48}, lng |-> {2}],
     B |-> [order |-> 2, lat |-> {35}, lng |-> {139}],
     N |-> [order |-> 3, lat |-> {}, lng |-> {10}],
     Z |-> [order |-> 4, lat |-> {0}, lng |-> {10}]]

\* JavaScript truthiness of a number-or-null (`!stop.lat`) and `x != null`
Truthy(x) == x # {} /\ x # {0}
NotNullish(x) == x # {}

\* [...stops].sort((a, b) => a.order - b.order)[0]?.id
FirstStopId ==
    CHOOSE s \in Stops : \A t \in Stops : StopTable[s].order <= StopTable[t].order

----------------------------------------------------------------------------
VARIABLES
    \* App state (useState)
    viewMode, selectedStopId, lastSelectedStopId, cloudActive, cloudPhase,
    \* App: the requests made so far and the position of each cloud transition
    log, taskPc,
    \* Globe: the props of the last commit, route arc, imagery blend target
    renderedViewMode, renderedSelectedStopId, routeVisible, mapMode,
    \* engine: the camera flight in the air, the tracked entity, the
    \* screen-space camera controller, the number of camera.rotate calls
    \* (mod 2), the angle of the last one, the promise microtasks, the clock
    flight, trackedEntity, controller, rotateCalls, lastAngle, microtasks, now,
    \* AutoRotateController fields
    autoRotateEnabled, isUserInteracting, lastInteractionTs, isCameraAnimating,
    preRenderRegistered, preRenderListeners, lastTickTs,
    \* cameraConstraints module state, and the live polling loops
    currentViewMode, lastWheelTs, clampScheduled, pollLoops,
    \* history: mode flights issued, and whether the callback of a cancelled
    \* venue flight set up the venue lock and bounds
    flightsIssued, abandonedSetup,
    \* history: runs of the end-of-flight cleanup of mode flights
    cleanupsRun,
    \* PremiumCameraManager: its isFlying field, and the promises its fly
    \* methods have returned (target and state), oldest first
    isFlying, promises,
    \* Globe: viewer initialisation ran to its end, so routeManagerRef,
    \* markerManagerRef (with a marker for every stop) and
    \* autoRotateControllerRef are set and the input listeners are installed
    managersCreated,
    \* history, for the specifications that call one function at a time: the
    \* last call made (function, arguments, result)
    lastCall

appVars == <<viewMode, selectedStopId, lastSelectedStopId, cloudActive, cloudPhase,
             log, taskPc>>
globeVars == <<renderedViewMode, renderedSelectedStopId, routeVisible, mapMode>>
engineVars == <<flight, trackedEntity, controller, rotateCalls, lastAngle,
                microtasks, now>>
rotateVars == <<autoRotateEnabled, isUserInteracting, lastInteractionTs,
                isCameraAnimating, preRenderRegistered, preRenderListeners, lastTickTs>>
zoomVars == <<currentViewMode, lastWheelTs, clampScheduled, pollLoops>>
histVars == <<flightsIssued, abandonedSetup, cleanupsRun>>
managerVars == <<isFlying, promises>>
vars == <<appVars, globeVars, engineVars, rotateVars, zoomVars, histVars,
          managerVars, managersCreated, lastCall>>

\* no function has been called on its own
NoCall == [fn |-> None, args |-> <<>>, result |-> <<>>]

----------------------------------------------------------------------------
(* Camera controller *)

CONTROLLER_DEFAULTS ==
    [enableTranslate |-> TRUE, enableLook |-> TRUE, enableTilt |-> TRUE,
     enableRotate |-> TRUE, enableZoom |-> TRUE]

applyOverviewConstraints(c) ==
    [c EXCEPT !.minimumZoomDistance = AUTO_OVERVIEW_MIN,
              !.maximumZoomDistance = AUTO_OVERVIEW_MAX]

removeOverviewConstraints(c) ==
    [c EXCEPT !.minimumZoomDistance = FREE_MIN_ZOOM,
              !.maximumZoomDistance = POSITIVE_INFINITY]

\* a variant that gives the venue the overview bounds
applyCameraConstraintsWide(c, mode) ==
    [c EXCEPT !.minimumZoomDistance = OVERVIEW_MIN_ZOOM,
              !.maximumZoomDistance = OVERVIEW_MAX_ZOOM]

\* applyCameraConstraints: the controller part
applyCameraConstraints(c, mode) ==
    IF mode = "venue"
    THEN [c EXCEPT !.minimumZoomDistance = VENUE_MIN_ZOOM,
                   !.maximumZoomDistance = VENUE_MAX_ZOOM]
    ELSE IF mode = "transition"
    THEN [c EXCEPT !.minimumZoomDistance = FREE_MIN_ZOOM,
                   !.maximumZoomDistance = POSITIVE_INFINITY]
    ELSE [c EXCEPT !.minimumZoomDistance = OVERVIEW_MIN_ZOOM,
                   !.maximumZoomDistance = OVERVIEW_MAX_ZOOM]

\* a variant that leaves tilt, rotate and zoom as they were
applyVenueCameraLockPanOnly(c) ==
    [c EXCEPT !.enableCollisionDetection = FALSE,
              !.enableTranslate = FALSE,
              !.enableLook = FALSE]

\* applyVenueCameraLock: the controller part (viewer.trackedEntity is set by the caller)
applyVenueCameraLock(c) ==
    [c EXCEPT !.enableCollisionDetection = FALSE,
              !.enableTranslate = FALSE,
              !.enableLook = FALSE,
              !.enableTilt = TRUE,
              !.enableRotate = TRUE,
              !.enableZoom = TRUE]

\* a variant that restores only what the lock disabled
removeVenueCameraLockPanOnly(c) ==
    [c EXCEPT !.enableCollisionDetection = TRUE,
              !.enableTranslate = CONTROLLER_DEFAULTS.enableTranslate,
              !.enableLook = CONTROLLER_DEFAULTS.enableLook]

\* removeVenueCameraLock: the controller part (viewer.trackedEntity is cleared by the caller)
removeVenueCameraLock(c) ==
    [c EXCEPT !.enableCollisionDetection = TRUE,
              !.enableTranslate = CONTROLLER_DEFAULTS.enableTranslate,
              !.enableLook = CONTROLLER_DEFAULTS.enableLook,
              !.enableTilt = CONTROLLER_DEFAULTS.enableTilt,
              !.enableRotate = CONTROLLER_DEFAULTS.enableRotate,
              !.enableZoom = CONTROLLER_DEFAULTS.enableZoom]

----------------------------------------------------------------------------
(* Camera flights of the engine. One flight is in the air at most: starting  *)
(* a flight cancels the one in the air, whose cancel callback runs inside    *)
(* the call (camera.flyTo) or whose promise resolves (viewer.flyTo).         *)

NoFlight == [kind |-> None, stop |-> None, req |-> 0, dest |-> 0]
VenueFlight(s) == [kind |-> "venue", stop |-> s, req |-> 0, dest |-> 0]
OverviewFlight(i, s) == [kind |-> "overview", stop |-> s, req |-> i, dest |-> 0]
ClampFlight(d) == [kind |-> "clamp", stop |-> None, req |-> 0, dest |-> d]

\* a flight of PremiumCameraManager, for the promise at index i
ManagerFlight(i, s) == [kind |-> "manager", stop |-> s, req |-> i, dest |-> 0]

\* a variant that leaves the route arc as it is
setRouteVisibleIgnored(visible) == routeVisible

\* RouteManager.setRouteVisible(visible), through routeManagerRef.current?.
setRouteVisible(visible) == IF managersCreated THEN visible ELSE routeVisible

\* the fly-to-selected-stop effect without a marker entity: camera.flyTo to
\* the pose computed from the stop's coordinates
PoseFlight(s) == [kind |-> "pose", stop |-> s, req |-> 0, dest |-> 0]

ModeFlightInAir == flight.kind \in {"venue", "overview", "pose"}

\* a variant in which a cancelled flight leaves no callback
EndMicrotasksOnArrival(f, wasCancelled) ==
    IF wasCancelled THEN <<>>
    ELSE IF f.kind = "venue"
    THEN <<[k |-> "onFlightComplete", stop |-> f.stop, req |-> 0,
            cancelled |-> wasCancelled]>>
    ELSE IF f.kind = "overview"
    THEN <<[k |-> "overviewResolved", stop |-> f.stop, req |-> f.req,
            cancelled |-> wasCancelled]>>
    ELSE <<>>

\* the microtask a flight leaves when it ends: the venue flight's
\* .then(onFlightComplete), the overview flight's resolve() continuation
EndMicrotasks(f, wasCancelled) ==
    IF f.kind = "venue"
    THEN <<[k |-> "onFlightComplete", stop |-> f.stop, req |-> 0,
            cancelled |-> wasCancelled]>>
    ELSE IF f.kind = "overview"
    THEN <<[k |-> "overviewResolved", stop |-> f.stop, req |-> f.req,
            cancelled |-> wasCancelled]>>
    ELSE <<>>

\* a variant whose end callbacks leave the flag alone
EndAnimatingKept(f, anim) == anim

\* isCameraAnimating after the end callback of flight f ran inside the call:
\* the overview flight's complete/cancel call
\* autoRotateControllerRef.current?.onFlightEnd()
EndAnimating(f, anim) ==
    IF f.kind = "overview" /\ managersCreated THEN FALSE ELSE anim

\* the cleanup runs counted after the end callback of flight f ran inside the
\* call: the overview flight's complete/cancel, and onFlightComplete as the
\* complete/cancel of the flight to a computed pose (the cleanup of the
\* flight to a marker entity is the onFlightComplete microtask)
EndCleanups(f, n) == IF f.kind \in {"overview", "pose"} THEN n + 1 ELSE n

\* a variant whose end callbacks leave the promise pending
EndPromisesKept(f, ps) == ps

\* the promises after the end callback of flight f ran: complete and cancel
\* of a PremiumCameraManager flight both call resolve()
EndPromises(f, ps) ==
    IF f.kind = "manager" THEN [ps EXCEPT ![f.req].state = "resolved"] ELSE ps

\* isFlying after the end callback of flight f ran
EndFlying(f, flying) == IF f.kind = "manager" THEN FALSE ELSE flying

\* clampScheduled after the end callback of flight f ran
EndClampScheduled(f, cs) == IF f.kind = "clamp" THEN FALSE ELSE cs

----------------------------------------------------------------------------
\* the tick listener of the controller: whether preRenderRemoval is set, and
\* how many of its listeners scene.preRender holds
PreRender == [removal |-> preRenderRegistered, listeners |-> preRenderListeners]

\* a variant that registers a listener whatever preRenderRemoval holds
startPreRenderAgain(p) == [removal |-> TRUE, listeners |-> p.listeners + 1]

\* startPreRender(): returns when preRenderRemoval is set, else registers one
startPreRender(p) ==
    IF p.removal THEN p ELSE [removal |-> TRUE, listeners |-> p.listeners + 1]

\* stopPreRender(): preRenderRemoval() removes its listener and clears itself
stopPreRender(p) ==
    IF p.removal THEN [removal |-> FALSE, listeners |-> p.listeners - 1] ELSE p

Init ==
    /\ viewMode = "overview"
    /\ selectedStopId = None
    /\ lastSelectedStopId = None
    /\ cloudActive = FALSE
    /\ cloudPhase = "in"
    /\ log = <<>>
    /\ taskPc = <<>>
    /\ renderedViewMode = "overview"
    /\ renderedSelectedStopId = None
    /\ routeVisible = TRUE
    /\ mapMode = "overview"
    /\ flight = NoFlight
    /\ trackedEntity = None
    /\ controller = applyOverviewConstraints(
                       [minimumZoomDistance |-> FREE_MIN_ZOOM,
                        maximumZoomDistance |-> POSITIVE_INFINITY,
                        enableCollisionDetection |-> TRUE,
                        enableTranslate |-> TRUE, enableLook |-> TRUE,
                        enableTilt |-> TRUE, enableRotate |-> TRUE,
                        enableZoom |-> TRUE])
    /\ rotateCalls = 0
    /\ lastAngle = 0
    /\ microtasks = <<>>
    /\ now = 0
    /\ autoRotateEnabled = TRUE
    /\ isUserInteracting = FALSE
    /\ lastInteractionTs = 0
    /\ isCameraAnimating = FALSE
    /\ preRenderRegistered = TRUE
    /\ preRenderListeners = 1
    /\ lastTickTs = 0
    /\ currentViewMode = "overview"
    /\ lastWheelTs = 0
    /\ clampScheduled = FALSE
    /\ pollLoops = 0
    /\ flightsIssued = 0
    /\ abandonedSetup = FALSE
    /\ cleanupsRun = 0
    /\ isFlying = FALSE
    /\ promises = <<>>
    /\ managersCreated = TRUE
    /\ lastCall = NoCall

\* a React commit is pending: the state differs from the props of the last render
RenderPending ==
    renderedViewMode # viewMode \/ renderedSelectedStopId # selectedStopId

\* the event loop is ready to serve a timer, a frame or an input event
Idle == microtasks = <<>> /\ ~RenderPending

----------------------------------------------------------------------------
(* App: request handlers and cloud transitions *)

\* what a request finds (history, kept in the log): "busy" when an earlier
\* request has not resolved (its work or its flight is pending), else the
\* mode at rest
RequestContext ==
    IF ModeFlightInAir \/ (\E i \in 1..Len(taskPc) : taskPc[i] = "fadeIn")
    THEN "busy"
    ELSE IF renderedViewMode = "venue" /\ trackedEntity # None THEN "venue"
    ELSE IF renderedViewMode = "overview" /\ trackedEntity = None THEN "overview"
    ELSE "other"

\* handleStopSelection(stopId), the stop being found in stops, up to the
\* first await of runCloudTransition: the overlay goes up
handleStopSelection(s) ==
    /\ Idle
    /\ Len(log) < MaxRequests
    /\ log' = Append(log, [kind |-> "select", stop |-> s, ctx |-> RequestContext])
    /\ taskPc' = Append(taskPc, "fadeIn")
    /\ cloudActive' = TRUE
    /\ cloudPhase' = "in"
    /\ UNCHANGED <<viewMode, selectedStopId, lastSelectedStopId>>
    /\ UNCHANGED <<globeVars, engineVars, rotateVars, zoomVars, histVars>>
    /\ UNCHANGED <<managerVars, managersCreated, lastCall>>

\* lastSelectedStopId ?? selectedStopId ?? firstStopId
AnchorStopId ==
    IF lastSelectedStopId # None THEN lastSelectedStopId
    ELSE IF selectedStopId # None THEN selectedStopId
    ELSE FirstStopId

\* handleOverviewClick: the anchor is fixed at the click
handleOverviewClick ==
    /\ Idle
    /\ Len(log) < MaxRequests
    /\ log' = Append(log, [kind |-> "overview", stop |-> AnchorStopId,
                            ctx |-> RequestContext])
    /\ taskPc' = Append(taskPc, "fadeIn")
    /\ cloudActive' = TRUE
    /\ cloudPhase' = "in"
    /\ UNCHANGED <<viewMode, selectedStopId, lastSelectedStopId>>
    /\ UNCHANGED <<globeVars, engineVars, rotateVars, zoomVars, histVars>>
    /\ UNCHANGED <<managerVars, managersCreated, lastCall>>

\* the cloud transitions wait the same CLOUD_FADE_MS: the oldest one runs first
NextFadeIn(i) ==
    /\ i \in 1..Len(taskPc)
    /\ taskPc[i] = "fadeIn"
    /\ \A j \in 1..(i - 1) : taskPc[j] # "fadeIn"

\* handleStopSelection, the work after the fade-in: the state updates, then
\* the race of the flight notification against the 2000 ms timer
SelectWork(i) ==
    /\ Idle
    /\ NextFadeIn(i)
    /\ log[i].kind = "select"
    /\ selectedStopId' = log[i].stop
    /\ lastSelectedStopId' = log[i].stop
    /\ viewMode' = "venue"
    /\ taskPc' = [taskPc EXCEPT ![i] = "timer"]
    /\ UNCHANGED <<cloudActive, cloudPhase, log>>
    /\ UNCHANGED <<globeVars, engineVars, rotateVars, zoomVars, histVars>>
    /\ UNCHANGED <<managerVars, managersCreated, lastCall>>

\* handleOverviewClick, the work after the fade-in: setViewMode('overview'),
\* then in the same task flyToOverviewAboveStop(anchorStop) when the anchor
\* has coordinates, else flyToOverview(stops) and an 800 ms timer
OverviewWork(i) ==
    LET s == log[i].stop
        st == StopTable[s]
    IN
    /\ Idle
    /\ NextFadeIn(i)
    /\ log[i].kind = "overview"
    /\ viewMode' = "overview"
    /\ IF NotNullish(st.lat) /\ NotNullish(st.lng)
       THEN IF ~Truthy(st.lat) \/ ~Truthy(st.lng)
            THEN \* flyToOverviewAboveStop returns Promise.resolve()
                 /\ microtasks' = <<[k |-> "overviewResolved", stop |-> s,
                                     req |-> i, cancelled |-> FALSE]>>
                 /\ taskPc' = [taskPc EXCEPT ![i] = "flight"]
                 /\ UNCHANGED <<mapMode, routeVisible, controller, flight,
                                isCameraAnimating, clampScheduled, flightsIssued,
                                cleanupsRun,
                                autoRotateEnabled, preRenderRegistered, preRenderListeners>>
            ELSE \* flyToOverviewAboveStop: setMapMode, route, onFlightStart,
                 \* applyOverviewConstraints, camera.flyTo
                 /\ mapMode' = "overview"
                 /\ routeVisible' = setRouteVisible(TRUE)
                 /\ controller' = applyOverviewConstraints(controller)
                 /\ flight' = OverviewFlight(i, s)
                 /\ isCameraAnimating' =
                        EndAnimating(flight, managersCreated \/ isCameraAnimating)
                 /\ microtasks' = EndMicrotasks(flight, TRUE)
                 /\ clampScheduled' = EndClampScheduled(flight, clampScheduled)
                 /\ flightsIssued' = flightsIssued + 1
                 /\ cleanupsRun' = EndCleanups(flight, cleanupsRun)
                 /\ taskPc' = [taskPc EXCEPT ![i] = "flight"]
                 /\ UNCHANGED <<autoRotateEnabled, preRenderRegistered, preRenderListeners>>
       ELSE \* Globe.flyToOverview(stops): setMapMode, then
            \* AutoRotateController.flyToOverview()
            /\ mapMode' = "overview"
            /\ routeVisible' = setRouteVisible(TRUE)
            /\ controller' = IF managersCreated
                             THEN applyOverviewConstraints(controller)
                             ELSE controller
            /\ autoRotateEnabled' = (managersCreated \/ autoRotateEnabled)
            /\ preRenderRegistered' = IF managersCreated
                                      THEN startPreRender(PreRender).removal
                                      ELSE preRenderRegistered
            /\ preRenderListeners' = IF managersCreated
                                     THEN startPreRender(PreRender).listeners
                                     ELSE preRenderListeners
            /\ isCameraAnimating' = (~managersCreated /\ isCameraAnimating)
            /\ taskPc' = [taskPc EXCEPT ![i] = "timer"]
            /\ UNCHANGED <<flight, microtasks, clampScheduled, flightsIssued,
                           cleanupsRun>>
    /\ UNCHANGED <<selectedStopId, lastSelectedStopId, cloudActive, cloudPhase, log>>
    /\ UNCHANGED <<renderedViewMode, renderedSelectedStopId>>
    /\ UNCHANGED <<trackedEntity, rotateCalls, lastAngle, now>>
    /\ UNCHANGED <<isUserInteracting, lastInteractionTs, lastTickTs>>
    /\ UNCHANGED <<currentViewMode, lastWheelTs, pollLoops>>
    /\ UNCHANGED abandonedSetup
    /\ UNCHANGED <<managerVars, managersCreated, lastCall>>

\* the timer a cloud transition waits on ends: the 2000 ms ceiling of a
\* selection, or the 800 ms delay of the default overview, which then clears
\* the selection
WorkTimer(i) ==
    /\ Idle
    /\ i \in 1..Len(taskPc)
    /\ taskPc[i] = "timer"
    /\ selectedStopId' = IF log[i].kind = "overview" THEN None ELSE selectedStopId
    /\ cloudPhase' = "out"
    /\ taskPc' = [taskPc EXCEPT ![i] = "fadeOut"]
    /\ UNCHANGED <<viewMode, lastSelectedStopId, cloudActive, log>>
    /\ UNCHANGED <<globeVars, engineVars, rotateVars, zoomVars, histVars>>
    /\ UNCHANGED <<managerVars, managersCreated, lastCall>>

\* runCloudTransition, the end: the overlay is cleared after the fade-out
FadeOutDone(i) ==
    /\ Idle
    /\ i \in 1..Len(taskPc)
    /\ taskPc[i] = "fadeOut"
    /\ cloudActive' = FALSE
    /\ taskPc' = [taskPc EXCEPT ![i] = "done"]
    /\ UNCHANGED <<viewMode, selectedStopId, lastSelectedStopId, cloudPhase, log>>
    /\ UNCHANGED <<globeVars, engineVars, rotateVars, zoomVars, histVars>>
    /\ UNCHANGED <<managerVars, managersCreated, lastCall>>

----------------------------------------------------------------------------
(* Promise microtasks *)

\* onFlightComplete of the fly-to-selected-stop effect, for the stop of its
\* closure: onFlightEnd, then (the marker entity exists) applyCameraConstraints
\* (viewer, 'venue') and applyVenueCameraLock(viewer, markerEntity)
onFlightComplete ==
    LET m == Head(microtasks) IN
    /\ microtasks # <<>>
    /\ m.k = "onFlightComplete"
    /\ microtasks' = Tail(microtasks)
    /\ isCameraAnimating' = FALSE
    /\ currentViewMode' = "venue"
    /\ controller' = applyVenueCameraLock(applyCameraConstraints(controller, "venue"))
    /\ trackedEntity' = m.stop
    /\ abandonedSetup' = (abandonedSetup \/ m.cancelled)
    /\ UNCHANGED <<appVars, globeVars>>
    /\ UNCHANGED <<flight, rotateCalls, lastAngle, now>>
    /\ UNCHANGED <<autoRotateEnabled, isUserInteracting, lastInteractionTs,
                   preRenderRegistered, preRenderListeners, lastTickTs>>
    /\ UNCHANGED <<lastWheelTs, clampScheduled, pollLoops>>
    /\ cleanupsRun' = cleanupsRun + 1
    /\ UNCHANGED flightsIssued
    /\ UNCHANGED <<managerVars, managersCreated, lastCall>>

\* handleOverviewClick after `await flyToOverviewAboveStopRef.current(...)`:
\* setSelectedStopId(null), then runCloudTransition starts the fade-out
overviewResolved ==
    LET m == Head(microtasks) IN
    /\ microtasks # <<>>
    /\ m.k = "overviewResolved"
    /\ microtasks' = Tail(microtasks)
    /\ selectedStopId' = None
    /\ cloudPhase' = "out"
    /\ taskPc' = [taskPc EXCEPT ![m.req] = "fadeOut"]
    /\ UNCHANGED <<viewMode, lastSelectedStopId, cloudActive, log>>
    /\ UNCHANGED globeVars
    /\ UNCHANGED <<flight, trackedEntity, controller, rotateCalls, lastAngle, now>>
    /\ UNCHANGED <<rotateVars, zoomVars, histVars>>
    /\ UNCHANGED <<managerVars, managersCreated, lastCall>>

----------------------------------------------------------------------------
(* Globe: the effects of one React commit, in the order they are declared *)

Commit ==
    LET vmChanged == renderedViewMode # viewMode
        selChanged == renderedSelectedStopId # selectedStopId
        \* route effects (deps viewMode, selectedStopId): setRouteVisible(viewMode === 'overview')
        rt1 == IF vmChanged \/ selChanged
               THEN setRouteVisible(viewMode = "overview") ELSE routeVisible
        \* autoRotateController.setViewMode(viewMode)
        setMode == managersCreated /\ vmChanged
        ar1 == IF setMode THEN viewMode = "overview" ELSE autoRotateEnabled
        pre1 == IF ~setMode THEN PreRender
                ELSE IF viewMode = "overview" THEN startPreRender(PreRender)
                ELSE stopPreRender(PreRender)
        c1 == IF ~setMode THEN controller
              ELSE IF viewMode = "overview" THEN applyOverviewConstraints(controller)
              ELSE removeOverviewConstraints(controller)
        \* removeVenueCameraLock when switching to overview
        unlock == vmChanged /\ viewMode = "overview"
        c2 == IF unlock THEN removeVenueCameraLock(c1) ELSE c1
        te2 == IF unlock THEN None ELSE trackedEntity
        \* fly to the selected stop when the selection changes
        fly == /\ selChanged
               /\ selectedStopId # None
               /\ Truthy(StopTable[selectedStopId].lat)
               /\ Truthy(StopTable[selectedStopId].lng)
    IN
    /\ microtasks = <<>>
    /\ RenderPending
    /\ renderedViewMode' = viewMode
    /\ renderedSelectedStopId' = selectedStopId
    /\ autoRotateEnabled' = ar1
    /\ preRenderRegistered' = pre1.removal
    /\ preRenderListeners' = pre1.listeners
    /\ IF fly
       THEN \* removeVenueCameraLock, setRouteVisible(false), onFlightStart,
            \* removeOverviewConstraints, setMapMode('venue'), viewer.flyTo
            /\ trackedEntity' = None
            /\ controller' = removeOverviewConstraints(removeVenueCameraLock(c2))
            \* (without a marker entity: camera.flyTo to the computed pose)
            /\ routeVisible' = IF managersCreated THEN setRouteVisible(FALSE)
                               ELSE rt1
            /\ mapMode' = "venue"
            /\ flight' = IF managersCreated THEN VenueFlight(selectedStopId)
                         ELSE PoseFlight(selectedStopId)
            /\ isCameraAnimating' =
                   EndAnimating(flight, managersCreated \/ isCameraAnimating)
            /\ microtasks' = EndMicrotasks(flight, TRUE)
            /\ clampScheduled' = EndClampScheduled(flight, clampScheduled)
            /\ flightsIssued' = flightsIssued + 1
            /\ cleanupsRun' = EndCleanups(flight, cleanupsRun)
       ELSE /\ trackedEntity' = te2
            /\ controller' = c2
            /\ routeVisible' = rt1
            /\ UNCHANGED <<mapMode, flight, isCameraAnimating, microtasks,
                           clampScheduled, flightsIssued, cleanupsRun>>
    /\ UNCHANGED appVars
    /\ UNCHANGED <<rotateCalls, lastAngle, now>>
    /\ UNCHANGED <<isUserInteracting, lastInteractionTs, lastTickTs>>
    /\ UNCHANGED <<currentViewMode, lastWheelTs, pollLoops>>
    /\ UNCHANGED abandonedSetup
    /\ UNCHANGED <<managerVars, managersCreated, lastCall>>

----------------------------------------------------------------------------
(* Engine: a flight in the air reaches its destination *)

FlightComplete ==
    /\ Idle
    /\ flight.kind # None
    /\ flight' = NoFlight
    /\ isCameraAnimating' = EndAnimating(flight, isCameraAnimating)
    /\ microtasks' = EndMicrotasks(flight, FALSE)
    /\ clampScheduled' = EndClampScheduled(flight, clampScheduled)
    /\ UNCHANGED <<appVars, globeVars>>
    /\ UNCHANGED <<trackedEntity, controller, rotateCalls, lastAngle, now>>
    /\ UNCHANGED <<autoRotateEnabled, isUserInteracting, lastInteractionTs,
                   preRenderRegistered, preRenderListeners, lastTickTs>>
    /\ UNCHANGED <<currentViewMode, lastWheelTs, pollLoops>>
    /\ cleanupsRun' = EndCleanups(flight, cleanupsRun)
    /\ UNCHANGED <<flightsIssued, abandonedSetup>>
    /\ isFlying' = EndFlying(flight, isFlying)
    /\ promises' = EndPromises(flight, promises)
    /\ UNCHANGED <<managersCreated, lastCall>>

----------------------------------------------------------------------------
(* AutoRotateController: input listeners and the pre-render tick *)

AUTO_ROTATE_SPEED == 15      \* 0.015 rad/s, in microradians per millisecond
FIRST_TICK_ANGLE == 250      \* 0.015 * (1 / 60) rad, in microradians
MAX_TICK_ANGLE == 500        \* 0.015 * (1 / 30) rad, in microradians

Min(a, b) == IF a <= b THEN a ELSE b
Max(a, b) == IF a >= b THEN a ELSE b

\* the controller's wheel listener
onWheel ==
    /\ lastInteractionTs' = now
    /\ UNCHANGED <<autoRotateEnabled, isUserInteracting, isCameraAnimating,
                   preRenderRegistered, preRenderListeners, lastTickTs>>

onPointerDown ==
    /\ Idle
    /\ managersCreated
    /\ ~isUserInteracting
    /\ isUserInteracting' = TRUE
    /\ UNCHANGED <<autoRotateEnabled, lastInteractionTs, isCameraAnimating,
                   preRenderRegistered, preRenderListeners, lastTickTs>>
    /\ UNCHANGED <<appVars, globeVars, engineVars, zoomVars, histVars>>
    /\ UNCHANGED <<managerVars, managersCreated, lastCall>>

onPointerUp ==
    /\ Idle
    /\ managersCreated
    /\ isUserInteracting
    /\ isUserInteracting' = FALSE
    /\ UNCHANGED <<autoRotateEnabled, lastInteractionTs, isCameraAnimating,
                   preRenderRegistered, preRenderListeners, lastTickTs>>
    /\ UNCHANGED <<appVars, globeVars, engineVars, zoomVars, histVars>>
    /\ UNCHANGED <<managerVars, managersCreated, lastCall>>

\* a variant without the wheel cooldown
TickRotatesNoCooldown ==
    /\ autoRotateEnabled
    /\ ~isUserInteracting
    /\ ~isCameraAnimating

\* tick passes its four early returns
TickRotates ==
    /\ autoRotateEnabled
    /\ ~isUserInteracting
    /\ ~isCameraAnimating
    /\ ~(now - lastInteractionTs < WHEEL_COOLDOWN_MS)

\* a variant without the cap on dt
TickAngleUncapped ==
    IF lastTickTs = 0 THEN FIRST_TICK_ANGLE
    ELSE AUTO_ROTATE_SPEED * (now - lastTickTs)

\* AUTO_ROTATE_SPEED * Math.min(dt, 1 / 30), dt = 1 / 60 on the first tick
TickAngle ==
    IF lastTickTs = 0 THEN FIRST_TICK_ANGLE
    ELSE Min(AUTO_ROTATE_SPEED * (now - lastTickTs), MAX_TICK_ANGLE)

\* the pre-render listener: one rendered frame
tick ==
    /\ Idle
    /\ preRenderRegistered
    /\ IF TickRotates
       THEN /\ lastTickTs' = now
            /\ lastAngle' = TickAngle
            /\ rotateCalls' = (rotateCalls + 1) % 2
       ELSE UNCHANGED <<lastTickTs, lastAngle, rotateCalls>>
    /\ UNCHANGED <<autoRotateEnabled, isUserInteracting, lastInteractionTs,
                   isCameraAnimating, preRenderRegistered, preRenderListeners>>
    /\ UNCHANGED <<flight, trackedEntity, controller, microtasks, now>>
    /\ UNCHANGED <<appVars, globeVars, zoomVars, histVars>>
    /\ UNCHANGED <<managerVars, managersCreated, lastCall>>

\* performance.now() moves on by d ms, up to limit
AdvanceTime(d, limit) ==
    /\ Idle
    /\ now + d <= limit
    /\ now' = now + d
    /\ UNCHANGED <<flight, trackedEntity, controller, rotateCalls, lastAngle, microtasks>>
    /\ UNCHANGED <<appVars, globeVars, rotateVars, zoomVars, histVars>>
    /\ UNCHANGED <<managerVars, managersCreated, lastCall>>

----------------------------------------------------------------------------
(* Zoom governor (cameraConstraints) *)

\* scheduleClampCheck: the wheel is stamped and a polling loop starts unless
\* clampScheduled (at most limit loops are followed)
scheduleClampCheck(limit) ==
    /\ clampScheduled \/ pollLoops < limit
    /\ lastWheelTs' = now
    /\ pollLoops' = IF clampScheduled THEN pollLoops ELSE pollLoops + 1
    /\ UNCHANGED <<currentViewMode, clampScheduled>>

\* a wheel event on the canvas runs both wheel listeners: the controller's
\* onWheel, then the governor's scheduleClampCheck
wheel(limit) ==
    /\ Idle
    /\ managersCreated
    /\ onWheel
    /\ scheduleClampCheck(limit)
    /\ UNCHANGED <<appVars, globeVars, engineVars, histVars>>
    /\ UNCHANGED <<managerVars, managersCreated, lastCall>>

\* clampCameraToBounds measures against the tracked entity
TargetIsEntity == currentViewMode = "venue" /\ trackedEntity # None

minDist == IF TargetIsEntity THEN VENUE_MIN_ZOOM ELSE OVERVIEW_MIN_ZOOM
maxDist == IF TargetIsEntity THEN VENUE_MAX_ZOOM ELSE OVERVIEW_MAX_ZOOM

\* CesiumMath.clamp(currentDist, minDist, maxDist)
clamp(x, lo, hi) == Min(Max(x, lo), hi)

\* the distance from the target of the destination clampCameraToBounds flies
\* to, for a camera at distance currentDist from the target. In venue mode
\* newPos = targetPos + direction * clampedDist, where direction is
\* camera - target (of length currentDist) for the entity target and the unit
\* vector centerToCam for the surface target; else
\* newPos = centerToCam * (radius + clampedDist), the target being
\* centerToCam * radius
DestinationDistance(currentDist) ==
    LET clampedDist == clamp(currentDist, minDist, maxDist) IN
    IF currentViewMode = "venue"
    THEN IF TargetIsEntity THEN currentDist * clampedDist ELSE clampedDist
    ELSE (MAXIMUM_RADIUS + clampedDist) - MAXIMUM_RADIUS

\* clampCameraToBounds issues a flight for a camera at currentDist
ClampFlies(currentDist) ==
    /\ currentViewMode # "transition"
    /\ ~(currentDist >= minDist /\ currentDist <= maxDist)

\* one polling loop finds the quiet period over: clampScheduled = true, then
\* clampCameraToBounds with the camera at distance currentDist from the target
rafCheck(currentDist) ==
    /\ Idle
    /\ pollLoops > 0
    /\ now - lastWheelTs >= WHEEL_CLAMP_DELAY_MS
    /\ pollLoops' = pollLoops - 1
    /\ clampScheduled' = TRUE
    /\ IF ClampFlies(currentDist)
       THEN /\ flight' = ClampFlight(DestinationDistance(currentDist))
            /\ isCameraAnimating' = EndAnimating(flight, isCameraAnimating)
            /\ microtasks' = EndMicrotasks(flight, TRUE)
            /\ cleanupsRun' = EndCleanups(flight, cleanupsRun)
       ELSE UNCHANGED <<flight, isCameraAnimating, microtasks, cleanupsRun>>
    /\ UNCHANGED <<currentViewMode, lastWheelTs>>
    /\ UNCHANGED <<autoRotateEnabled, isUserInteracting, lastInteractionTs,
                   preRenderRegistered, preRenderListeners, lastTickTs>>
    /\ UNCHANGED <<trackedEntity, controller, rotateCalls, lastAngle, now>>
    /\ UNCHANGED <<appVars, globeVars>>
    /\ UNCHANGED <<flightsIssued, abandonedSetup>>
    /\ UNCHANGED <<managerVars, managersCreated, lastCall>>

\* camera distances the bounds check may measure: at and beyond each bound
CoarseDistances ==
    IF TargetIsEntity THEN {VENUE_MAX_ZOOM, VENUE_MAX_ZOOM + 1}
    ELSE {OVERVIEW_MIN_ZOOM, OVERVIEW_MIN_ZOOM - 1}

----------------------------------------------------------------------------
(* The application: mode requests, flights, frames and wheel events, on a
   coarse clock *)

Next ==
    \/ \E s \in Stops : handleStopSelection(s)
    \/ handleOverviewClick
    \/ \E i \in 1..MaxRequests : SelectWork(i)
    \/ \E i \in 1..MaxRequests : OverviewWork(i)
    \/ \E i \in 1..MaxRequests : WorkTimer(i)
    \/ \E i \in 1..MaxRequests : FadeOutDone(i)
    \/ onFlightComplete
    \/ overviewResolved
    \/ Commit
    \/ FlightComplete
    \/ tick
    \/ AdvanceTime(WHEEL_COOLDOWN_MS, MaxNow)
    \/ wheel(MaxPolls)
    \/ \E d \in CoarseDistances : rafCheck(d)

Spec == Init /\ [][Next]_vars

----------------------------------------------------------------------------
(* The application again, from Venue at rest: stop A was selected from the
   cold start and its flight completed (a state Spec reaches); the history
   starts here *)

InitVenue ==
    /\ viewMode = "venue"
    /\ selectedStopId = "A"
    /\ lastSelectedStopId = "A"
    /\ cloudActive = FALSE
    /\ cloudPhase = "out"
    /\ log = <<>>
    /\ taskPc = <<>>
    /\ renderedViewMode = "venue"
    /\ renderedSelectedStopId = "A"
    /\ routeVisible = FALSE
    /\ mapMode = "venue"
    /\ flight = NoFlight
    /\ trackedEntity = "A"
    /\ controller = applyVenueCameraLock(applyCameraConstraints(
                       [minimumZoomDistance |-> FREE_MIN_ZOOM,
                        maximumZoomDistance |-> POSITIVE_INFINITY,
                        enableCollisionDetection |-> TRUE,
                        enableTranslate |-> TRUE, enableLook |-> TRUE,
                        enableTilt |-> TRUE, enableRotate |-> TRUE,
                        enableZoom |-> TRUE], "venue"))
    /\ rotateCalls = 0
    /\ lastAngle = 0
    /\ microtasks = <<>>
    /\ now = 0
    /\ autoRotateEnabled = FALSE
    /\ isUserInteracting = FALSE
    /\ lastInteractionTs = 0
    /\ isCameraAnimating = FALSE
    /\ preRenderRegistered = FALSE
    /\ preRenderListeners = 0
    /\ lastTickTs = 0
    /\ currentViewMode = "venue"
    /\ lastWheelTs = 0
    /\ clampScheduled = FALSE
    /\ pollLoops = 0
    /\ flightsIssued = 0
    /\ abandonedSetup = FALSE
    /\ cleanupsRun = 0
    /\ isFlying = FALSE
    /\ promises = <<>>
    /\ managersCreated = TRUE
    /\ lastCall = NoCall

SpecVenue == InitVenue /\ [][Next]_vars

----------------------------------------------------------------------------
(* AutoRotateController alone: its methods called in any order, the pointer
   and wheel listeners, and the pre-render tick, on a fine clock *)

setViewMode(m) ==
    /\ autoRotateEnabled' = (m = "overview")
    /\ controller' = IF m = "overview" THEN applyOverviewConstraints(controller)
                     ELSE removeOverviewConstraints(controller)
    /\ preRenderRegistered' = (IF m = "overview" THEN startPreRender(PreRender)
                               ELSE stopPreRender(PreRender)).removal
    /\ preRenderListeners' = (IF m = "overview" THEN startPreRender(PreRender)
                              ELSE stopPreRender(PreRender)).listeners
    /\ UNCHANGED <<isUserInteracting, lastInteractionTs, isCameraAnimating, lastTickTs>>
    /\ UNCHANGED <<flight, trackedEntity, rotateCalls, lastAngle, microtasks, now>>
    /\ UNCHANGED <<appVars, globeVars, zoomVars, histVars>>
    /\ UNCHANGED <<managerVars, managersCreated, lastCall>>

onFlightStart ==
    /\ isCameraAnimating' = TRUE
    /\ UNCHANGED <<autoRotateEnabled, isUserInteracting, lastInteractionTs,
                   preRenderRegistered, preRenderListeners, lastTickTs>>
    /\ UNCHANGED <<appVars, globeVars, engineVars, zoomVars, histVars>>
    /\ UNCHANGED <<managerVars, managersCreated, lastCall>>

onFlightEnd ==
    /\ isCameraAnimating' = FALSE
    /\ UNCHANGED <<autoRotateEnabled, isUserInteracting, lastInteractionTs,
                   preRenderRegistered, preRenderListeners, lastTickTs>>
    /\ UNCHANGED <<appVars, globeVars, engineVars, zoomVars, histVars>>
    /\ UNCHANGED <<managerVars, managersCreated, lastCall>>

\* a wheel event served by the controller's listener
wheelOnController ==
    /\ onWheel
    /\ UNCHANGED <<appVars, globeVars, engineVars, zoomVars, histVars>>
    /\ UNCHANGED <<managerVars, managersCreated, lastCall>>

\* clock steps that meet the cooldown exactly and miss it by 1 ms
RotateSteps == {WHEEL_COOLDOWN_MS - 1, WHEEL_COOLDOWN_MS}

NextRotate ==
    \/ \E m \in {"overview", "venue"} : setViewMode(m)
    \/ onFlightStart
    \/ onFlightEnd
    \/ onPointerDown
    \/ onPointerUp
    \/ wheelOnController
    \/ tick
    \/ \E d \in RotateSteps : AdvanceTime(d, MaxRotateNow)

SpecRotate == Init /\ [][NextRotate]_vars

----------------------------------------------------------------------------
(* The pre-render tick on a frame clock, from the moment the cooldown that
   follows the page load is over: frames 16 ms apart (one, two or three of
   them between rotating ticks, under and over 1/30 s), and a pause of the
   length of the wheel cooldown *)

MaxFrameNow == 1248
MaxPauseNow == 2448

FRAME_MS == 16

InitTick ==
    /\ viewMode = "overview"
    /\ selectedStopId = None
    /\ lastSelectedStopId = None
    /\ cloudActive = FALSE
    /\ cloudPhase = "in"
    /\ log = <<>>
    /\ taskPc = <<>>
    /\ renderedViewMode = "overview"
    /\ renderedSelectedStopId = None
    /\ routeVisible = TRUE
    /\ mapMode = "overview"
    /\ flight = NoFlight
    /\ trackedEntity = None
    /\ controller = applyOverviewConstraints(
                       [minimumZoomDistance |-> FREE_MIN_ZOOM,
                        maximumZoomDistance |-> POSITIVE_INFINITY,
                        enableCollisionDetection |-> TRUE,
                        enableTranslate |-> TRUE, enableLook |-> TRUE,
                        enableTilt |-> TRUE, enableRotate |-> TRUE,
                        enableZoom |-> TRUE])
    /\ rotateCalls = 0
    /\ lastAngle = 0
    /\ microtasks = <<>>
    /\ now = WHEEL_COOLDOWN_MS
    /\ autoRotateEnabled = TRUE
    /\ isUserInteracting = FALSE
    /\ lastInteractionTs = 0
    /\ isCameraAnimating = FALSE
    /\ preRenderRegistered = TRUE
    /\ preRenderListeners = 1
    /\ lastTickTs = 0
    /\ currentViewMode = "overview"
    /\ lastWheelTs = 0
    /\ clampScheduled = FALSE
    /\ pollLoops = 0
    /\ flightsIssued = 0
    /\ abandonedSetup = FALSE
    /\ cleanupsRun = 0
    /\ isFlying = FALSE
    /\ promises = <<>>
    /\ managersCreated = TRUE
    /\ lastCall = NoCall

NextTick ==
    \/ onFlightStart
    \/ onFlightEnd
    \/ onPointerDown
    \/ onPointerUp
    \/ wheelOnController
    \/ tick
    \/ AdvanceTime(FRAME_MS, MaxFrameNow)
    \/ AdvanceTime(WHEEL_COOLDOWN_MS, MaxPauseNow)

SpecTick == InitTick /\ [][NextTick]_vars

----------------------------------------------------------------------------
(* The zoom governor alone, in each mode at rest: wheel events, the polling
   loops, corrective flights, on a fine clock *)

\* Overview at rest after a visit of stop A (a state Spec reaches):
\* currentViewMode still reads venue
InitReturned ==
    /\ viewMode = "overview"
    /\ selectedStopId = None
    /\ lastSelectedStopId = "A"
    /\ cloudActive = FALSE
    /\ cloudPhase = "out"
    /\ log = <<>>
    /\ taskPc = <<>>
    /\ renderedViewMode = "overview"
    /\ renderedSelectedStopId = None
    /\ routeVisible = TRUE
    /\ mapMode = "overview"
    /\ flight = NoFlight
    /\ trackedEntity = None
    /\ controller = applyOverviewConstraints(
                       [minimumZoomDistance |-> FREE_MIN_ZOOM,
                        maximumZoomDistance |-> POSITIVE_INFINITY,
                        enableCollisionDetection |-> TRUE,
                        enableTranslate |-> TRUE, enableLook |-> TRUE,
                        enableTilt |-> TRUE, enableRotate |-> TRUE,
                        enableZoom |-> TRUE])
    /\ rotateCalls = 0
    /\ lastAngle = 0
    /\ microtasks = <<>>
    /\ now = 0
    /\ autoRotateEnabled = TRUE
    /\ isUserInteracting = FALSE
    /\ lastInteractionTs = 0
    /\ isCameraAnimating = FALSE
    /\ preRenderRegistered = TRUE
    /\ preRenderListeners = 1
    /\ lastTickTs = 0
    /\ currentViewMode = "venue"
    /\ lastWheelTs = 0
    /\ clampScheduled = FALSE
    /\ pollLoops = 0
    /\ flightsIssued = 0
    /\ abandonedSetup = FALSE
    /\ cleanupsRun = 0
    /\ isFlying = FALSE
    /\ promises = <<>>
    /\ managersCreated = TRUE
    /\ lastCall = NoCall

\* camera distances at and 1 m beyond each bound of the target
FineDistances ==
    IF TargetIsEntity
    THEN {VENUE_MIN_ZOOM - 1, VENUE_MIN_ZOOM, VENUE_MAX_ZOOM, VENUE_MAX_ZOOM + 1}
    ELSE {OVERVIEW_MIN_ZOOM - 1, OVERVIEW_MIN_ZOOM, OVERVIEW_MAX_ZOOM,
          OVERVIEW_MAX_ZOOM + 1}

\* clock steps that meet the quiet period exactly and miss it by 1 ms
ZoomSteps == {WHEEL_CLAMP_DELAY_MS - 1, WHEEL_CLAMP_DELAY_MS}

NextZoom ==
    \/ wheel(MaxZoomPolls)
    \/ \E d \in FineDistances : rafCheck(d)
    \/ \E d \in ZoomSteps : AdvanceTime(d, MaxZoomNow)
    \/ FlightComplete

SpecZoom == (Init \/ InitVenue \/ InitReturned) /\ [][NextZoom]_vars

----------------------------------------------------------------------------
(* The application with the scheduling the runtime guarantees: a due timer, a
   queued microtask and a pending commit are served. The engine's end of a
   flight is not among them: its notification may never arrive *)

Scheduling ==
    /\ WF_vars(\E i \in 1..MaxRequests : SelectWork(i))
    /\ WF_vars(\E i \in 1..MaxRequests : OverviewWork(i))
    /\ WF_vars(\E i \in 1..MaxRequests : WorkTimer(i))
    /\ WF_vars(\E i \in 1..MaxRequests : FadeOutDone(i))
    /\ WF_vars(onFlightComplete)
    /\ WF_vars(overviewResolved)
    /\ WF_vars(Commit)

SpecFair == Init /\ [][Next]_vars /\ Scheduling

----------------------------------------------------------------------------
(* The application after a viewer initialisation that threw once viewerRef and
   the imagery layers were set and before the managers were created: the catch
   sets isReady, the refs of the managers stay null, no listener is installed *)

InitFailedStart ==
    /\ viewMode = "overview"
    /\ selectedStopId = None
    /\ lastSelectedStopId = None
    /\ cloudActive = FALSE
    /\ cloudPhase = "in"
    /\ log = <<>>
    /\ taskPc = <<>>
    /\ renderedViewMode = "overview"
    /\ renderedSelectedStopId = None
    /\ routeVisible = FALSE
    /\ mapMode = "overview"
    /\ flight = NoFlight
    /\ trackedEntity = None
    /\ controller = [minimumZoomDistance |-> FREE_MIN_ZOOM,
                     maximumZoomDistance |-> POSITIVE_INFINITY,
                     enableCollisionDetection |-> TRUE,
                     enableTranslate |-> TRUE, enableLook |-> TRUE,
                     enableTilt |-> TRUE, enableRotate |-> TRUE,
                     enableZoom |-> TRUE]
    /\ rotateCalls = 0
    /\ lastAngle = 0
    /\ microtasks = <<>>
    /\ now = 0
    /\ autoRotateEnabled = FALSE
    /\ isUserInteracting = FALSE
    /\ lastInteractionTs = 0
    /\ isCameraAnimating = FALSE
    /\ preRenderRegistered = FALSE
    /\ preRenderListeners = 0
    /\ lastTickTs = 0
    /\ currentViewMode = "overview"
    /\ lastWheelTs = 0
    /\ clampScheduled = FALSE
    /\ pollLoops = 0
    /\ flightsIssued = 0
    /\ abandonedSetup = FALSE
    /\ cleanupsRun = 0
    /\ isFlying = FALSE
    /\ promises = <<>>
    /\ managersCreated = FALSE
    /\ lastCall = NoCall

NextFailedStart ==
    \/ \E s \in Stops : handleStopSelection(s)
    \/ handleOverviewClick
    \/ \E i \in 1..MaxRequests : SelectWork(i)
    \/ \E i \in 1..MaxRequests : OverviewWork(i)
    \/ \E i \in 1..MaxRequests : WorkTimer(i)
    \/ \E i \in 1..MaxRequests : FadeOutDone(i)
    \/ overviewResolved
    \/ Commit
    \/ FlightComplete

SpecFailedStart == InitFailedStart /\ [][NextFailedStart]_vars

----------------------------------------------------------------------------
(* venueCameraLock alone: its two functions called in any order on a viewer
   whose controller flags, zoom distances and tracked entity are arbitrary *)

\* the zoom distances the program puts on the controller
ZoomDistances ==
    {<<FREE_MIN_ZOOM, POSITIVE_INFINITY>>, <<VENUE_MIN_ZOOM, VENUE_MAX_ZOOM>>,
     <<AUTO_OVERVIEW_MIN, AUTO_OVERVIEW_MAX>>}

\* every setting of the five input flags; collision detection is on unless
\* applyVenueCameraLock turned it off
ControllerStates ==
    {[minimumZoomDistance |-> z[1], maximumZoomDistance |-> z[2],
      enableCollisionDetection |-> TRUE,
      enableTranslate |-> tr, enableLook |-> lk, enableTilt |-> tl,
      enableRotate |-> ro, enableZoom |-> zm] :
        z \in ZoomDistances, tr \in BOOLEAN, lk \in BOOLEAN, tl \in BOOLEAN,
        ro \in BOOLEAN, zm \in BOOLEAN}

InitLock ==
    /\ viewMode = "overview"
    /\ selectedStopId = None
    /\ lastSelectedStopId = None
    /\ cloudActive = FALSE
    /\ cloudPhase = "in"
    /\ log = <<>>
    /\ taskPc = <<>>
    /\ renderedViewMode = "overview"
    /\ renderedSelectedStopId = None
    /\ routeVisible = TRUE
    /\ mapMode = "overview"
    /\ flight = NoFlight
    /\ trackedEntity \in Stops \cup {None}
    /\ controller \in ControllerStates
    /\ rotateCalls = 0
    /\ lastAngle = 0
    /\ microtasks = <<>>
    /\ now = 0
    /\ autoRotateEnabled = TRUE
    /\ isUserInteracting = FALSE
    /\ lastInteractionTs = 0
    /\ isCameraAnimating = FALSE
    /\ preRenderRegistered = TRUE
    /\ preRenderListeners = 1
    /\ lastTickTs = 0
    /\ currentViewMode = "overview"
    /\ lastWheelTs = 0
    /\ clampScheduled = FALSE
    /\ pollLoops = 0
    /\ flightsIssued = 0
    /\ abandonedSetup = FALSE
    /\ cleanupsRun = 0
    /\ isFlying = FALSE
    /\ promises = <<>>
    /\ managersCreated = TRUE
    /\ lastCall = NoCall

\* applyVenueCameraLock(viewer, entity), the entity being the marker of stop e
lockVenueCamera(e) ==
    /\ controller' = applyVenueCameraLock(controller)
    /\ trackedEntity' = e
    /\ lastCall' = [fn |-> "applyVenueCameraLock",
                    args |-> <<controller, trackedEntity, e>>, result |-> <<>>]
    /\ UNCHANGED <<flight, rotateCalls, lastAngle, microtasks, now>>
    /\ UNCHANGED <<appVars, globeVars, rotateVars, zoomVars, histVars>>
    /\ UNCHANGED <<managerVars, managersCreated>>

\* removeVenueCameraLock(viewer)
unlockVenueCamera ==
    /\ controller' = removeVenueCameraLock(controller)
    /\ trackedEntity' = None
    /\ lastCall' = [fn |-> "removeVenueCameraLock",
                    args |-> <<controller, trackedEntity>>, result |-> <<>>]
    /\ UNCHANGED <<flight, rotateCalls, lastAngle, microtasks, now>>
    /\ UNCHANGED <<appVars, globeVars, rotateVars, zoomVars, histVars>>
    /\ UNCHANGED <<managerVars, managersCreated>>

NextLock ==
    \/ \E e \in Stops : lockVenueCamera(e)
    \/ unlockVenueCamera

SpecLock == InitLock /\ [][NextLock]_vars

----------------------------------------------------------------------------
(* Camera poses (camera/poses.ts, camera/overview.ts). Numbers are fixed-point:
   a unit vector component and a length in ellipsoid maximum radii are both
   held in thousandths, rounded to the nearest thousandth *)

FIXED_ONE == 1000

\* the squared radii of the WGS84 ellipsoid over the squared maximum radius
RADII_SQUARED == <<1000, 1000, 993>>

OVERVIEW_DISTANCE_MULTIPLIER == 5

MaxRoot == 9000

\* the largest r in lo..hi with r * r <= x, by bisection
RECURSIVE RootBetween(_, _, _)
RootBetween(x, lo, hi) ==
    IF lo = hi THEN lo
    ELSE LET mid == (lo + hi + 1) \div 2
         IN IF mid * mid <= x THEN RootBetween(x, mid, hi)
            ELSE RootBetween(x, lo, mid - 1)

\* Math.sqrt, to the nearest integer below
sqrt(x) == RootBetween(x, 0, MaxRoot)

\* a quotient rounded to the nearest integer
RoundDiv(a, b) == (2 * a + b) \div (2 * b)

\* Cartesian3 operations
UNIT_X == <<FIXED_ONE, 0, 0>>
UNIT_Z == <<0, 0, FIXED_ONE>>
\* the value Cartesian3.normalize cannot return: it throws for a zero vector
NotANumber == <<>>

magnitude(a) == sqrt(a[1] * a[1] + a[2] * a[2] + a[3] * a[3])

normalize(a) ==
    IF a = NotANumber \/ magnitude(a) = 0 THEN NotANumber
    ELSE [i \in 1..3 |-> RoundDiv(a[i] * FIXED_ONE, magnitude(a))]

multiplyByScalar(a, s) ==
    IF a = NotANumber THEN NotANumber
    ELSE [i \in 1..3 |-> RoundDiv(a[i] * s, FIXED_ONE)]

negate(a) == IF a = NotANumber THEN NotANumber ELSE [i \in 1..3 |-> 0 - a[i]]

cross(a, b) ==
    IF a = NotANumber \/ b = NotANumber THEN NotANumber
    ELSE << RoundDiv(a[2] * b[3] - a[3] * b[2], FIXED_ONE),
            RoundDiv(a[3] * b[1] - a[1] * b[3], FIXED_ONE),
            RoundDiv(a[1] * b[2] - a[2] * b[1], FIXED_ONE) >>

dot(a, b) == RoundDiv(a[1] * b[1] + a[2] * b[2] + a[3] * b[3], FIXED_ONE)

\* angles with their cosine and sine: the quadrant angles, the angles of the
\* 3-4-5 triangle, and 89.94 degrees, one thousandth short of the pole
Latitudes ==
    { [deg |-> "-90", cos |-> 0, sin |-> -1000],
      [deg |-> "-53.13", cos |-> 600, sin |-> -800],
      [deg |-> "-36.87", cos |-> 800, sin |-> -600],
      [deg |-> "0", cos |-> 1000, sin |-> 0],
      [deg |-> "36.87", cos |-> 800, sin |-> 600],
      [deg |-> "53.13", cos |-> 600, sin |-> 800],
      [deg |-> "89.94", cos |-> 1, sin |-> 1000],
      [deg |-> "90", cos |-> 0, sin |-> 1000] }

Longitudes ==
    { [deg |-> "-143.13", cos |-> -800, sin |-> -600],
      [deg |-> "-90", cos |-> 0, sin |-> -1000],
      [deg |-> "-36.87", cos |-> 800, sin |-> -600],
      [deg |-> "0", cos |-> 1000, sin |-> 0],
      [deg |-> "53.13", cos |-> 600, sin |-> 800],
      [deg |-> "90", cos |-> 0, sin |-> 1000],
      [deg |-> "180", cos |-> -1000, sin |-> 0] }

Anchors == {[lon |-> lo, lat |-> la] : lo \in Longitudes, la \in Latitudes}

DEFAULT_ANCHOR ==
    [lon |-> [deg |-> "0", cos |-> 1000, sin |-> 0],
     lat |-> [deg |-> "0", cos |-> 1000, sin |-> 0]]

\* ellipsoid.cartographicToCartesian(Cartographic.fromDegrees(lon, lat, 0)):
\* the geodetic normal, scaled by the squared radii and divided by gamma
cartographicToCartesian(lon, lat) ==
    LET nrm == << RoundDiv(lat.cos * lon.cos, FIXED_ONE),
                  RoundDiv(lat.cos * lon.sin, FIXED_ONE),
                  lat.sin >>
        kk == [i \in 1..3 |-> RoundDiv(RADII_SQUARED[i] * nrm[i], FIXED_ONE)]
        gamma == sqrt(nrm[1] * kk[1] + nrm[2] * kk[2] + nrm[3] * kk[3])
    IN [i \in 1..3 |-> RoundDiv(kk[i] * FIXED_ONE, gamma)]

\* a variant whose fallback axis is the polar axis
FallbackNorthPolar == UNIT_Z

\* the north vector used when the east vector has no length
FallbackNorth == UNIT_X

\* eastMag < 1e-10: below one thousandth only 0 is
EastIsDegenerate(east) == east # NotANumber /\ magnitude(east) < 1

computeEarthCenteredPoseAboveLatLng(lon, lat, distanceFromCenter) ==
    LET surface == cartographicToCartesian(lon, lat)
        n == normalize(surface)
        destination == multiplyByScalar(n, distanceFromCenter)
        direction == normalize(negate(destination))
        east == cross(UNIT_Z, n)
        north == IF EastIsDegenerate(east) THEN FallbackNorth
                 ELSE normalize(cross(n, normalize(east)))
    IN [destination |-> destination, direction |-> direction, up |-> north,
        fallback |-> EastIsDegenerate(east)]

\* a variant that measures the distance from the surface
distanceFromCenterAboveSurface(radius) == radius * OVERVIEW_DISTANCE_MULTIPLIER + radius

\* radius * OVERVIEW_DISTANCE_MULTIPLIER
distanceFromCenter(radius) == radius * OVERVIEW_DISTANCE_MULTIPLIER

\* getEarthRadius(viewer): the maximum radius, the unit of length
getEarthRadius == FIXED_ONE

\* a call of computeEarthCenteredPoseAboveLatLng at the distance its callers use
poseAbove(a) ==
    /\ lastCall' = [fn |-> "computeEarthCenteredPoseAboveLatLng",
                    args |-> <<a.lon.deg, a.lat.deg>>,
                    result |-> computeEarthCenteredPoseAboveLatLng(
                                  a.lon, a.lat,
                                  distanceFromCenter(getEarthRadius))]
    /\ UNCHANGED <<appVars, globeVars, engineVars, rotateVars, zoomVars, histVars>>
    /\ UNCHANGED <<managerVars, managersCreated>>

\* setOverviewCameraCentered(viewer, anchorLonLat), the pose it applies
setOverviewCameraCentered(given) ==
    LET anchor == IF given = {} THEN DEFAULT_ANCHOR ELSE CHOOSE a \in given : TRUE
    IN
    /\ lastCall' = [fn |-> "setOverviewCameraCentered",
                    args |-> IF given = {} THEN <<>>
                             ELSE <<anchor.lon.deg, anchor.lat.deg>>,
                    result |-> computeEarthCenteredPoseAboveLatLng(
                                  anchor.lon, anchor.lat,
                                  distanceFromCenter(getEarthRadius))]
    /\ UNCHANGED <<appVars, globeVars, engineVars, rotateVars, zoomVars, histVars>>
    /\ UNCHANGED <<managerVars, managersCreated>>

NextPose ==
    \/ \E a \in Anchors : poseAbove(a)
    \/ \E a \in Anchors : setOverviewCameraCentered({a})
    \/ setOverviewCameraCentered({})

SpecPose == Init /\ [][NextPose]_vars

----------------------------------------------------------------------------
(* clampCameraToBounds alone, with positions: every vector it computes is a
   multiple of the camera's position (surface target) or of the camera's
   offset from the entity (entity target), so a position is its signed
   coordinate in meters along that line, from the body centre or from the
   entity *)

Abs(x) == IF x < 0 THEN 0 - x ELSE x

\* targetPos: the entity, or centerToCam * radius
TargetCoordinate == IF TargetIsEntity THEN 0 ELSE MAXIMUM_RADIUS

\* Cartesian3.distance(camera.positionWC, targetPos)
CurrentDistance(cam) == Abs(cam - TargetCoordinate)

\* direction: camera - target for the entity, the unit vector centerToCam else
RayDirection(cam) == IF TargetIsEntity THEN cam - TargetCoordinate ELSE 1

\* newPos
NewPosition(cam) ==
    LET clampedDist == clamp(CurrentDistance(cam), minDist, maxDist) IN
    IF currentViewMode = "venue"
    THEN TargetCoordinate + RayDirection(cam) * clampedDist
    ELSE RayDirection(cam) * (MAXIMUM_RADIUS + clampedDist)

\* heights of the camera over the sphere of the maximum radius; the ellipsoid
\* lies up to 21 km below that sphere, so a camera near the ground is below it
SphereHeights ==
    {-10000, -5000, -1, 1, OVERVIEW_MIN_ZOOM - 1, OVERVIEW_MAX_ZOOM + 1}
    \cup {1000000 * k : k \in 2..31}

\* offsets of the camera from the tracked entity
EntityOffsets == {100 * k : k \in 1..25} \cup {VENUE_MIN_ZOOM - 1, VENUE_MAX_ZOOM + 1}

CameraCoordinates ==
    IF TargetIsEntity THEN EntityOffsets
    ELSE {MAXIMUM_RADIUS + h : h \in SphereHeights}

InitClamp ==
    /\ viewMode = "overview"
    /\ selectedStopId = None
    /\ lastSelectedStopId = None
    /\ cloudActive = FALSE
    /\ cloudPhase = "in"
    /\ log = <<>>
    /\ taskPc = <<>>
    /\ renderedViewMode = "overview"
    /\ renderedSelectedStopId = None
    /\ routeVisible = TRUE
    /\ mapMode = "overview"
    /\ flight = NoFlight
    /\ trackedEntity \in {None, "A"}
    /\ controller = [minimumZoomDistance |-> FREE_MIN_ZOOM,
                     maximumZoomDistance |-> POSITIVE_INFINITY,
                     enableCollisionDetection |-> TRUE,
                     enableTranslate |-> TRUE, enableLook |-> TRUE,
                     enableTilt |-> TRUE, enableRotate |-> TRUE,
                     enableZoom |-> TRUE]
    /\ rotateCalls = 0
    /\ lastAngle = 0
    /\ microtasks = <<>>
    /\ now = 0
    /\ autoRotateEnabled = FALSE
    /\ isUserInteracting = FALSE
    /\ lastInteractionTs = 0
    /\ isCameraAnimating = FALSE
    /\ preRenderRegistered = FALSE
    /\ preRenderListeners = 0
    /\ lastTickTs = 0
    /\ currentViewMode \in {"overview", "venue"}
    \* an entity is tracked only after applyCameraConstraints(viewer, 'venue')
    /\ trackedEntity # None => currentViewMode = "venue"
    /\ lastWheelTs = 0
    /\ clampScheduled = FALSE
    /\ pollLoops = 0
    /\ flightsIssued = 0
    /\ abandonedSetup = FALSE
    /\ cleanupsRun = 0
    /\ isFlying = FALSE
    /\ promises = <<>>
    /\ managersCreated = TRUE
    /\ lastCall = NoCall

\* clampCameraToBounds(viewer) with the camera at coordinate cam
clampCameraToBounds(cam) ==
    /\ IF ClampFlies(CurrentDistance(cam))
       THEN /\ flight' = ClampFlight(DestinationDistance(CurrentDistance(cam)))
            /\ clampScheduled' = TRUE
            /\ lastCall' = [fn |-> "clampCameraToBounds", args |-> <<cam>>,
                            result |-> <<NewPosition(cam)>>]
       ELSE /\ lastCall' = [fn |-> "clampCameraToBounds", args |-> <<cam>>,
                            result |-> <<>>]
            /\ UNCHANGED <<flight, clampScheduled>>
    /\ UNCHANGED <<trackedEntity, controller, rotateCalls, lastAngle, microtasks, now>>
    /\ UNCHANGED <<currentViewMode, lastWheelTs, pollLoops>>
    /\ UNCHANGED <<appVars, globeVars, rotateVars, histVars>>
    /\ UNCHANGED <<managerVars, managersCreated>>

NextClamp ==
    \/ \E cam \in CameraCoordinates : clampCameraToBounds(cam)
    \/ FlightComplete

SpecClamp == InitClamp /\ [][NextClamp]_vars

----------------------------------------------------------------------------
(* The surface floor: clampCameraAboveSurface, run before every rendered
   frame, for cameras given by longitude, latitude, height over the
   ellipsoid and look direction *)

MIN_HEIGHT_ABOVE_SURFACE == 0

\* carto.height of the camera, in meters: below, on and above the ellipsoid
CameraHeights == {-20, 0, 15}

\* camera.directionWC: the axes and unit vectors of the 3-4-5 triangle; among
\* them are the east vector and the radial of several camera positions
LookDirections ==
    { <<1000, 0, 0>>, <<-1000, 0, 0>>, <<0, 1000, 0>>, <<0, -1000, 0>>,
      <<0, 0, 1000>>, <<0, 0, -1000>>, <<600, 800, 0>>, <<-800, 600, 0>>,
      <<0, 600, 800>>, <<-600, 0, -800>> }

\* the points the camera is over: on the equator, in between, at both poles
\* and one thousandth short of the north pole
FloorPoints ==
    { <<"0", "0">>, <<"53.13", "0">>, <<"-36.87", "36.87">>, <<"90", "53.13">>,
      <<"-143.13", "-53.13">>, <<"0", "89.94">>, <<"0", "90">>, <<"180", "-90">> }

FloorCameras ==
    {[lon |-> a.lon, lat |-> a.lat, height |-> h, direction |-> d] :
        a \in {b \in Anchors : <<b.lon.deg, b.lat.deg>> \in FloorPoints},
        h \in CameraHeights, d \in LookDirections}

\* eastNorm: east = cross(UNIT_Z, radial) normalised, UNIT_X when eastMag < 1e-10
EastNorm(radial) ==
    LET east == cross(UNIT_Z, radial) IN
    IF magnitude(east) >= 1 THEN normalize(east) ELSE UNIT_X

\* a variant that keeps cross(direction, eastNorm) whatever its length
SafeUpEastOnly(direction, radial) ==
    [vector |-> cross(direction, EastNorm(radial)), from |-> "east"]

\* the up vector: cross(direction, eastNorm); cross(direction, radial) when
\* that has no length; UNIT_X when that has none either
SafeUp(direction, radial) ==
    LET up == cross(direction, EastNorm(radial)) IN
    IF magnitude(up) < 1
    THEN LET up2 == cross(direction, radial) IN
         IF magnitude(up2) < 1 THEN [vector |-> UNIT_X, from |-> "axis"]
         ELSE [vector |-> normalize(up2), from |-> "radial"]
    ELSE [vector |-> normalize(up), from |-> "east"]

\* clampCameraAboveSurface(viewer) with the camera cam; the result is the
\* argument of camera.setView, or nothing when the function returns early
clampCameraAboveSurface(cam) ==
    /\ lastCall' =
         [fn |-> "clampCameraAboveSurface",
          args |-> <<cam>>,
          result |->
            IF currentViewMode # "venue" THEN <<>>
            ELSE IF cam.height >= MIN_HEIGHT_ABOVE_SURFACE THEN <<>>
            ELSE LET surfacePos == cartographicToCartesian(cam.lon, cam.lat)
                     direction == normalize(cam.direction)
                     radial == normalize(surfacePos)
                     up == SafeUp(direction, radial)
                 IN << [lon |-> cam.lon, lat |-> cam.lat,
                        height |-> MIN_HEIGHT_ABOVE_SURFACE,
                        destination |-> surfacePos,
                        direction |-> direction,
                        up |-> up.vector, from |-> up.from] >>]
    /\ UNCHANGED <<appVars, globeVars, engineVars, rotateVars, zoomVars, histVars>>
    /\ UNCHANGED <<managerVars, managersCreated>>

NextFloor == \E cam \in FloorCameras : clampCameraAboveSurface(cam)

SpecFloor == InitClamp /\ [][NextFloor]_vars

----------------------------------------------------------------------------
(* The application with a stop on the equator among the stops that are
   selected *)

\* the stop whose lat is 0
EquatorStop == "Z"

NextEquator ==
    \/ \E s \in {"A", EquatorStop} : handleStopSelection(s)
    \/ handleOverviewClick
    \/ \E i \in 1..MaxRequests : SelectWork(i)
    \/ \E i \in 1..MaxRequests : OverviewWork(i)
    \/ \E i \in 1..MaxRequests : WorkTimer(i)
    \/ \E i \in 1..MaxRequests : FadeOutDone(i)
    \/ onFlightComplete
    \/ overviewResolved
    \/ Commit
    \/ FlightComplete
    \/ tick
    \/ AdvanceTime(WHEEL_COOLDOWN_MS, MaxNow)
    \/ wheel(MaxPolls)
    \/ \E d \in CoarseDistances : rafCheck(d)

SpecEquator == Init /\ [][NextEquator]_vars

----------------------------------------------------------------------------
(* AutoRotateController from its construction: initialize, setViewMode,
   flyToOverview and destroy called in any order, with the flight
   notifications, rendered frames and the clock. The canvas listeners that
   initialize attaches and destroy removes serve input events, which are not
   among these steps. *)

InitConstructed ==
    /\ viewMode = "overview"
    /\ selectedStopId = None
    /\ lastSelectedStopId = None
    /\ cloudActive = FALSE
    /\ cloudPhase = "in"
    /\ log = <<>>
    /\ taskPc = <<>>
    /\ renderedViewMode = "overview"
    /\ renderedSelectedStopId = None
    /\ routeVisible = TRUE
    /\ mapMode = "overview"
    /\ flight = NoFlight
    /\ trackedEntity = None
    /\ controller = [minimumZoomDistance |-> FREE_MIN_ZOOM,
                     maximumZoomDistance |-> POSITIVE_INFINITY,
                     enableCollisionDetection |-> TRUE,
                     enableTranslate |-> TRUE, enableLook |-> TRUE,
                     enableTilt |-> TRUE, enableRotate |-> TRUE,
                     enableZoom |-> TRUE]
    /\ rotateCalls = 0
    /\ lastAngle = 0
    /\ microtasks = <<>>
    /\ now = 0
    /\ autoRotateEnabled = FALSE
    /\ isUserInteracting = FALSE
    /\ lastInteractionTs = 0
    /\ isCameraAnimating = FALSE
    /\ preRenderRegistered = FALSE
    /\ preRenderListeners = 0
    /\ lastTickTs = 0
    /\ currentViewMode = "overview"
    /\ lastWheelTs = 0
    /\ clampScheduled = FALSE
    /\ pollLoops = 0
    /\ flightsIssued = 0
    /\ abandonedSetup = FALSE
    /\ cleanupsRun = 0
    /\ isFlying = FALSE
    /\ promises = <<>>
    /\ managersCreated = TRUE
    /\ lastCall = NoCall

\* initialize(): setOverviewCamera, applyOverviewConstraints,
\* autoRotateEnabled = true, attachInteractionListeners, startPreRender
initialize ==
    /\ controller' = applyOverviewConstraints(controller)
    /\ autoRotateEnabled' = TRUE
    /\ preRenderRegistered' = startPreRender(PreRender).removal
    /\ preRenderListeners' = startPreRender(PreRender).listeners
    /\ lastCall' = [fn |-> "initialize", args |-> <<>>,
                    result |-> <<startPreRender(PreRender).listeners>>]
    /\ UNCHANGED <<isUserInteracting, lastInteractionTs, isCameraAnimating, lastTickTs>>
    /\ UNCHANGED <<flight, trackedEntity, rotateCalls, lastAngle, microtasks, now>>
    /\ UNCHANGED <<appVars, globeVars, zoomVars, histVars>>
    /\ UNCHANGED <<managerVars, managersCreated>>

\* AutoRotateController.flyToOverview(): onFlightStart, setOverviewCamera,
\* applyOverviewConstraints, autoRotateEnabled = true, startPreRender,
\* onFlightEnd
controllerFlyToOverview ==
    /\ controller' = applyOverviewConstraints(controller)
    /\ autoRotateEnabled' = TRUE
    /\ preRenderRegistered' = startPreRender(PreRender).removal
    /\ preRenderListeners' = startPreRender(PreRender).listeners
    /\ isCameraAnimating' = FALSE
    /\ lastCall' = [fn |-> "flyToOverview", args |-> <<>>,
                    result |-> <<startPreRender(PreRender).listeners>>]
    /\ UNCHANGED <<isUserInteracting, lastInteractionTs, lastTickTs>>
    /\ UNCHANGED <<flight, trackedEntity, rotateCalls, lastAngle, microtasks, now>>
    /\ UNCHANGED <<appVars, globeVars, zoomVars, histVars>>
    /\ UNCHANGED <<managerVars, managersCreated>>

\* destroy(): stopPreRender, autoRotateEnabled = false, the canvas listeners
\* removed
destroy ==
    /\ preRenderRegistered' = stopPreRender(PreRender).removal
    /\ preRenderListeners' = stopPreRender(PreRender).listeners
    /\ autoRotateEnabled' = FALSE
    /\ lastCall' = [fn |-> "destroy", args |-> <<>>,
                    result |-> <<stopPreRender(PreRender).listeners>>]
    /\ UNCHANGED <<isUserInteracting, lastInteractionTs, isCameraAnimating, lastTickTs>>
    /\ UNCHANGED <<engineVars, appVars, globeVars, zoomVars, histVars>>
    /\ UNCHANGED <<managerVars, managersCreated>>

NextListener ==
    \/ initialize
    \/ \E m \in {"overview", "venue"} : setViewMode(m)
    \/ controllerFlyToOverview
    \/ destroy
    \/ onFlightStart
    \/ onFlightEnd
    \/ tick
    \/ AdvanceTime(WHEEL_COOLDOWN_MS, MaxRotateNow)

SpecListener == InitConstructed /\ [][NextListener]_vars

----------------------------------------------------------------------------
(* PremiumCameraManager alone: its fly methods and cancelFlight called in any
   order, and the engine ending the flight in the air *)

\* the body shared by flyToStop and flyToOverview: camera.cancelFlight() when
\* isFlying (the cancel callback of the flight in the air runs inside the
\* call), isFlying = true, then camera.flyTo inside the promise executor
managerFly(target) ==
    LET cancelled == IF isFlying THEN EndPromises(flight, promises) ELSE promises
        f == IF isFlying THEN NoFlight ELSE flight
    IN
    /\ Len(promises) < MaxCameraRequests
    /\ promises' = Append(EndPromises(f, cancelled),
                          [target |-> target, state |-> "pending"])
    /\ isFlying' = TRUE
    /\ flight' = ManagerFlight(Len(promises) + 1, target)
    /\ UNCHANGED <<trackedEntity, controller, rotateCalls, lastAngle, microtasks, now>>
    /\ UNCHANGED <<appVars, globeVars, rotateVars, zoomVars, histVars>>
    /\ UNCHANGED <<managersCreated, lastCall>>

\* flyToStop(stop): a stop without lat or lng is flown to as 0 degrees
flyToStop(s) == managerFly(s)

\* flyToOverview(stops)
flyToOverview == managerFly("overview")

\* cancelFlight()
cancelFlight ==
    /\ IF isFlying
       THEN /\ flight' = NoFlight
            /\ promises' = EndPromises(flight, promises)
            /\ isFlying' = FALSE
       ELSE UNCHANGED <<flight, promises, isFlying>>
    /\ UNCHANGED <<trackedEntity, controller, rotateCalls, lastAngle, microtasks, now>>
    /\ UNCHANGED <<appVars, globeVars, rotateVars, zoomVars, histVars>>
    /\ UNCHANGED <<managersCreated, lastCall>>

NextCamera ==
    \/ \E s \in Stops : flyToStop(s)
    \/ flyToOverview
    \/ cancelFlight
    \/ FlightComplete

SpecCamera == Init /\ [][NextCamera]_vars

----------------------------------------------------------------------------
(* Properties of the mode coordination *)

HasCoords(s) == Truthy(StopTable[s].lat) /\ Truthy(StopTable[s].lng)

\* every flight, callback, commit and cloud transition has resolved
Quiescent ==
    /\ flight = NoFlight
    /\ Idle
    /\ \A i \in 1..Len(taskPc) : taskPc[i] = "done"

VenueBoundsActive ==
    /\ controller.minimumZoomDistance = VENUE_MIN_ZOOM
    /\ controller.maximumZoomDistance = VENUE_MAX_ZOOM

OverviewBoundsActive ==
    /\ controller.minimumZoomDistance = AUTO_OVERVIEW_MIN
    /\ controller.maximumZoomDistance = AUTO_OVERVIEW_MAX

\* C1: a stop with coordinates is selected from the cold overview and the
\* overview is requested before the venue flight has resolved; once everything
\* has resolved the mode is overview, no entity is tracked, pan and look are
\* enabled, the venue bounds are not on the controller, and the callback of
\* the abandoned venue flight has not applied the venue lock or venue bounds.
C1_VenueThenOverview ==
    ( /\ Len(log) = 2
      /\ log[1].kind = "select" /\ HasCoords(log[1].stop)
      /\ log[1].ctx = "overview"
      /\ log[2].kind = "overview" /\ log[2].ctx = "busy"
      /\ Quiescent )
    => ( /\ viewMode = "overview"
         /\ trackedEntity = None
         /\ controller.enableTranslate /\ controller.enableLook
         /\ ~VenueBoundsActive
         /\ ~abandonedSetup )

\* C2: the overview is requested from the cold start and stop A is selected
\* before the overview flight has resolved; once everything has resolved the
\* mode is venue, the selected stop is A, the camera is locked on A's entity
\* with the venue bounds, and auto-rotation is off.
C2_OverviewThenVenue ==
    ( /\ Len(log) = 2
      /\ log[1].kind = "overview" /\ HasCoords(log[1].stop)
      /\ log[2].kind = "select" /\ log[2].stop = "A" /\ log[2].ctx = "busy"
      /\ Quiescent )
    => ( /\ viewMode = "venue"
         /\ selectedStopId = "A"
         /\ trackedEntity = "A"
         /\ ~controller.enableTranslate /\ ~controller.enableLook
         /\ VenueBoundsActive
         /\ ~OverviewBoundsActive
         /\ ~autoRotateEnabled )

\* C4: no tick rotates the camera while the view mode is venue or while a
\* mode-change flight (to a venue or to the overview) is in the air.
C4_RotateOnlyInOverviewAtRest ==
    [][(viewMode = "venue" \/ ModeFlightInAir) => rotateCalls' = rotateCalls]_vars

\* C6: stop B, which has coordinates, is selected from the cold overview and
\* nothing else is requested: once its work has been committed auto-rotation
\* is off and exactly one mode flight has been issued, and once that flight
\* has ended and its callback has run the camera is locked on B's entity with
\* the venue bounds 500 m to 1000 m on the controller.
C6_SelectFromCold ==
    ( /\ Len(log) = 1
      /\ log[1].kind = "select" /\ log[1].stop = "B"
      /\ taskPc[1] # "fadeIn"
      /\ ~RenderPending )
    => ( /\ ~autoRotateEnabled
         /\ flightsIssued = 1
         /\ (flight.kind # "venue" /\ microtasks = <<>>)
              => ( /\ trackedEntity = "B"
                   /\ ~controller.enableTranslate /\ ~controller.enableLook
                   /\ controller.minimumZoomDistance = 500
                   /\ controller.maximumZoomDistance = 1000 ) )

\* C6 happens: the one venue flight to B has completed and the lock is on
C6_Locked ==
    /\ Len(log) = 1 /\ log[1].kind = "select" /\ log[1].stop = "B"
    /\ flight = NoFlight /\ microtasks = <<>>
    /\ flightsIssued = 1
    /\ trackedEntity = "B"
    /\ VenueBoundsActive

\* C7: a stop without lat is selected from the cold overview; once everything
\* has resolved no flight was issued and the view mode, the auto-rotation
\* enabled state, the zoom bounds and the route visibility are as they were.
C7_SelectWithoutLat ==
    ( /\ Len(log) = 1
      /\ log[1].kind = "select" /\ ~Truthy(StopTable[log[1].stop].lat)
      /\ Quiescent )
    => ( /\ flightsIssued = 0
         /\ viewMode = "overview"
         /\ autoRotateEnabled
         /\ OverviewBoundsActive
         /\ routeVisible )

\* C9: the view mode is one of overview, venue, transition, and it is
\* transition exactly while a mode-change flight is in the air.
C9_TransitionWhileFlying ==
    /\ viewMode \in {"overview", "venue", "transition"}
    /\ currentViewMode \in {"overview", "venue", "transition"}
    /\ ModeFlightInAir <=> (viewMode = "transition" \/ currentViewMode = "transition")

\* C10: while a mode-change flight is in the air clampCameraToBounds issues
\* no corrective flight.
C10_NoClampDuringModeFlight ==
    [][ModeFlightInAir => flight'.kind # "clamp"]_vars

\* the flight of overview request i, made from Venue at rest with an anchor
\* that has coordinates, ends in this step
OverviewFlightFromVenueEnds ==
    /\ flight.kind = "overview"
    /\ flight' # flight
    /\ log[flight.req].ctx = "venue"
    /\ HasCoords(log[flight.req].stop)

OverviewRestored ==
    /\ autoRotateEnabled /\ ~isCameraAnimating
    /\ OverviewBoundsActive
    /\ trackedEntity = None

\* the work of an overview request made from Venue at rest, with an anchor
\* that has coordinates, issues the request's flight
OverviewFromVenueFlies ==
    \A i \in 1..Len(log) :
        ( /\ log[i].kind = "overview" /\ log[i].ctx = "venue"
          /\ HasCoords(log[i].stop)
          /\ taskPc[i] = "fadeIn" /\ taskPc'[i] # "fadeIn" )
        => flight' = OverviewFlight(i, log[i].stop)

NoSelectionSince(i) ==
    \A j \in (i + 1)..Len(log) : log[j].kind # "select"

----------------------------------------------------------------------------
(* Properties of the auto-rotate controller *)

\* C3: a tick rotates the camera only when the pointer is up, no flight is in
\* progress and at least 1200 ms have passed since the last wheel input.
C3_TickGuards ==
    [][rotateCalls' # rotateCalls =>
          ( /\ ~isUserInteracting
            /\ ~isCameraAnimating
            /\ now - lastInteractionTs >= 1200 )]_vars

\* C3 happens: the camera has been rotated, and now ticks run inside the
\* cooldown of a later wheel input with the pointer down during a flight
C3_Blocked ==
    /\ rotateCalls = 1
    /\ preRenderRegistered /\ autoRotateEnabled
    /\ lastInteractionTs > 0
    /\ now - lastInteractionTs = WHEEL_COOLDOWN_MS - 1
    /\ isUserInteracting /\ isCameraAnimating

----------------------------------------------------------------------------
(* Properties of the zoom governor *)

\* C5: the destination of a corrective flight lies within
\* [minDistance, maxDistance] of its target, for the tracked entity in venue
\* mode and for the surface point under the camera otherwise.
C5_ClampLandsInBounds ==
    flight.kind = "clamp" => (flight.dest >= minDist /\ flight.dest <= maxDist)

\* a wheel input is served in this step
WheelStamped == lastWheelTs' # lastWheelTs

\* a polling loop runs its bounds check in this step
CheckRuns == pollLoops' < pollLoops

\* C11: a wheel input during a corrective flight starts no flight and leaves
\* a polling loop alive, which runs a bounds check after the quiet period.
C11_WheelDuringCorrection ==
    [][(flight.kind = "clamp" /\ WheelStamped)
          => (flight' = flight /\ pollLoops' > 0)]_vars

\* C12: every wheel input served with no flight in the air, also one that
\* follows an earlier check, leaves a polling loop alive, which runs a bounds
\* check after the quiet period.
C12_EveryWheelChecked ==
    [][(flight = NoFlight /\ WheelStamped) => pollLoops' > 0]_vars

\* C13: a bounds check runs no earlier than 150 ms after the last wheel
\* input, and it is the only check of its burst: no other polling loop is
\* left to check again.
C13_OneCheckPerBurst ==
    [][CheckRuns => (now - lastWheelTs >= 150 /\ pollLoops' = 0)]_vars

----------------------------------------------------------------------------
(* Properties of the flights' cleanup *)

\* onFlightComplete callbacks of venue flights that have ended, not yet run
PendingCleanups ==
    Cardinality({i \in 1..Len(microtasks) : microtasks[i].k = "onFlightComplete"})

\* the cleanup of a venue flight runs in this step
VenueCleanupStep ==
    /\ microtasks # <<>>
    /\ Head(microtasks).k = "onFlightComplete"
    /\ microtasks' = Tail(microtasks)

\* an overview flight ends in this step
OverviewEndStep == flight.kind = "overview" /\ flight' # flight

\* C14: every mode-change flight issued has had its cleanup run exactly once
\* when it has ended, and the cleanup does the same on completion and on
\* cancellation: the venue flight's clears the flight flag and sets the venue
\* bounds and the lock on its stop, the overview flight's clears the flight
\* flag and resolves the promise of its request.
C14_IdenticalCleanupOnce ==
    /\ [](cleanupsRun + PendingCleanups + (IF ModeFlightInAir THEN 1 ELSE 0)
            = flightsIssued)
    /\ [][ /\ VenueCleanupStep
               => ( /\ ~isCameraAnimating'
                    /\ trackedEntity' = Head(microtasks).stop
                    /\ VenueBoundsActive'
                    /\ ~controller'.enableTranslate /\ ~controller'.enableLook )
           /\ OverviewEndStep
               => ( /\ ~isCameraAnimating'
                    /\ \E i \in 1..Len(microtasks') :
                          /\ microtasks'[i].k = "overviewResolved"
                          /\ microtasks'[i].req = flight.req ) ]_vars

\* C14 happens: a venue flight was cancelled and an overview flight has
\* arrived, and both cleanups have run
C14_BothPaths ==
    /\ abandonedSetup
    /\ flightsIssued = 2 /\ cleanupsRun = 2
    /\ flight = NoFlight /\ microtasks = <<>>
    /\ Len(log) = 2 /\ log[2].kind = "overview"

\* C16: once a mode change has completed (a request was made and every
\* flight, callback, commit and cloud transition has resolved) the zoom
\* distances on the controller are exactly the bounds of the mode: 2,000 km
\* and 30,000 km in overview, 500 m and 1,000 m in venue.
C16_BoundsOfMode ==
    (Len(log) >= 1 /\ Quiescent)
    => IF viewMode = "overview"
       THEN /\ controller.minimumZoomDistance = OVERVIEW_MIN_ZOOM
            /\ controller.maximumZoomDistance = OVERVIEW_MAX_ZOOM
       ELSE /\ controller.minimumZoomDistance = VENUE_MIN_ZOOM
            /\ controller.maximumZoomDistance = VENUE_MAX_ZOOM

\* a flight to a stop, or an overview flight, is issued in this step
VenueFlightIssued == flight' # flight /\ flight'.kind \in {"venue", "pose"}
OverviewFlightIssued == flight' # flight /\ flight'.kind = "overview"

\* C18: in the step that issues the flight of a venue request the route is
\* already hidden and the imagery already switched to venue; in the step that
\* issues the flight of an overview request the route is already shown and
\* the imagery already switched to overview. Neither waits for the flight.
C18_VisualsAtFlightStart ==
    [][ /\ VenueFlightIssued => (~routeVisible' /\ mapMode' = "venue")
        /\ OverviewFlightIssued => (routeVisible' /\ mapMode' = "overview") ]_vars

\* C18 happens: a stop was selected from the cold overview, the overview was
\* requested next, and its flight is in the air with the route shown again
C18_BothChanges ==
    /\ Len(log) = 2
    /\ log[1].kind = "select" /\ log[1].ctx = "overview" /\ HasCoords(log[1].stop)
    /\ log[2].kind = "overview"
    /\ flightsIssued = 2
    /\ flight.kind = "overview"
    /\ routeVisible /\ mapMode = "overview"

\* C17: when the selection changes to a stop whose marker entity is not
\* resolved (getMarkerEntity returns nothing), the commit issues no flight.
C17_NoMarkerNoFlight ==
    [][( /\ ~managersCreated
         /\ selectedStopId # None
         /\ renderedSelectedStopId # selectedStopId
         /\ renderedSelectedStopId' = selectedStopId )
       => (flight' = flight /\ flightsIssued' = flightsIssued)]_vars

\* C19: every cloud transition that was started finishes and clears the
\* overlay, whether or not the engine ever reports the end of the flight.
C19_TransitionsFinish ==
    \A i \in 1..MaxRequests :
        (Len(taskPc) >= i) ~> (Len(taskPc) >= i /\ taskPc[i] = "done" /\ ~cloudActive)

----------------------------------------------------------------------------
(* Properties of the camera manager *)

\* C15: at most one flight of the manager is unresolved, the most recently
\* requested one: every earlier promise is resolved (none is rejected, none
\* waits in a queue), and the manager is flying exactly while the last
\* promise is pending and its flight is the one in the air.
C15_OneFlightLastWins ==
    /\ \A i \in 1..Len(promises) :
          /\ promises[i].state \in {"pending", "resolved"}
          /\ i < Len(promises) => promises[i].state = "resolved"
    /\ isFlying <=> (promises # <<>> /\ promises[Len(promises)].state = "pending")
    /\ isFlying <=> flight.kind = "manager"
    /\ isFlying => flight = ManagerFlight(Len(promises), promises[Len(promises)].target)

\* C15 happens: a flight to stop A was requested while the overview flight
\* was in the air; the first promise is resolved, the second flight is in
\* the air
C15_Superseded ==
    /\ Len(promises) = 2
    /\ promises[1] = [target |-> "overview", state |-> "resolved"]
    /\ promises[2] = [target |-> "A", state |-> "pending"]
    /\ flight = ManagerFlight(2, "A")
    /\ isFlying

----------------------------------------------------------------------------
(* Properties of the venue camera lock *)

\* C20: after applyVenueCameraLock(viewer, entity) the camera tracks that
\* entity, translate and look are disabled and tilt, rotate and zoom are
\* enabled, whatever the flags and the tracked entity were before the call.
C20_LockEffect ==
    [][\A e \in Stops :
          lockVenueCamera(e)
          => ( /\ trackedEntity' = e
               /\ ~controller'.enableTranslate /\ ~controller'.enableLook
               /\ controller'.enableTilt /\ controller'.enableRotate
               /\ controller'.enableZoom )]_vars

\* C20 happens: the lock was applied (collision detection is off) to a viewer
\* that had the overview zoom distances, and the camera tracks stop B
C20_LockedOnB ==
    /\ ~controller.enableCollisionDetection
    /\ trackedEntity = "B"
    /\ controller.minimumZoomDistance = AUTO_OVERVIEW_MIN
    /\ ~controller.enableTranslate /\ ~controller.enableLook
    /\ controller.enableTilt /\ controller.enableRotate /\ controller.enableZoom

\* the interaction flags and collision detection are at their defaults
FlagsAtDefaults(c) ==
    /\ c.enableCollisionDetection
    /\ c.enableTranslate /\ c.enableLook /\ c.enableTilt
    /\ c.enableRotate /\ c.enableZoom

\* C21: removeVenueCameraLock clears the tracked entity and leaves translate,
\* look, tilt, rotate, zoom and collision detection enabled; a second call
\* changes nothing; and the lock followed by the removal gives the default
\* flags from any starting state.
C21_RemoveRestoresDefaults ==
    /\ [][unlockVenueCamera
            => (trackedEntity' = None /\ FlagsAtDefaults(controller'))]_vars
    /\ [](removeVenueCameraLock(removeVenueCameraLock(controller))
             = removeVenueCameraLock(controller))
    /\ [](FlagsAtDefaults(removeVenueCameraLock(applyVenueCameraLock(controller))))

\* C21 happens: the lock was removed from a camera that was locked on stop B
C21_Unlocked ==
    /\ lastCall.fn = "removeVenueCameraLock"
    /\ lastCall.args[2] = "B"
    /\ ~lastCall.args[1].enableCollisionDetection
    /\ ~lastCall.args[1].enableTranslate
    /\ trackedEntity = None
    /\ FlagsAtDefaults(controller)

----------------------------------------------------------------------------
(* Properties of the camera poses *)

\* the tolerance of the fixed-point comparisons, in thousandths
Tolerance == 1

Near(a, b) == a - b \in (0 - Tolerance)..Tolerance
IsUnit(v) == v # NotANumber /\ Near(magnitude(v), FIXED_ONE)

PoseCall == lastCall.fn = "computeEarthCenteredPoseAboveLatLng"

\* C22: for every anchor the pose has unit direction and up, perpendicular to
\* each other, with direction opposite to the destination; at a pole the
\* call does not throw and gives such a basis through the fallback axis.
C22_PoseOrthonormal ==
    PoseCall =>
        LET r == lastCall.result IN
        /\ IsUnit(r.direction) /\ IsUnit(r.up)
        /\ Near(dot(r.direction, r.up), 0)
        /\ r.destination # NotANumber
        /\ Near(dot(r.direction, normalize(r.destination)), 0 - FIXED_ONE)
        /\ lastCall.args[2] \in {"90", "-90"} => r.fallback

\* C22 happens: the pose above the south pole was computed, by the fallback
C22_PolarPose ==
    /\ PoseCall
    /\ lastCall.args = <<"53.13", "-90">>
    /\ lastCall.result.fallback
    /\ lastCall.result.up = UNIT_X
    /\ lastCall.result.direction = UNIT_Z

\* C23: setOverviewCameraCentered with no anchor places the camera above the
\* default anchor, longitude 0 on the equator (not a pole, so not through the
\* fallback), at a distance from the centre of the maximum radius times
\* OVERVIEW_DISTANCE_MULTIPLIER.
C23_DefaultOverviewDistance ==
    (lastCall.fn = "setOverviewCameraCentered" /\ lastCall.args = <<>>)
    => LET r == lastCall.result IN
       /\ r.destination = multiplyByScalar(UNIT_X, getEarthRadius * OVERVIEW_DISTANCE_MULTIPLIER)
       /\ magnitude(r.destination) = getEarthRadius * OVERVIEW_DISTANCE_MULTIPLIER
       /\ ~r.fallback
       /\ DEFAULT_ANCHOR.lat.deg = "0" /\ DEFAULT_ANCHOR.lon.deg = "0"

\* C23 happens: the overview camera was set with no anchor, five radii out
C23_DefaultOverviewSet ==
    /\ lastCall.fn = "setOverviewCameraCentered"
    /\ lastCall.args = <<>>
    /\ lastCall.result.destination = <<5000, 0, 0>>
    /\ lastCall.result.direction = <<-1000, 0, 0>>

----------------------------------------------------------------------------
(* Properties of the corrective flight *)

\* position p is on the ray from the target through the camera
OnRay(target, cam, p) ==
    \/ cam > target /\ p >= target
    \/ cam < target /\ p <= target

\* C24: the destination of a corrective flight lies on the ray from the
\* target through the camera's position, for the entity target and for the
\* surface target.
C24_DestinationOnRay ==
    (lastCall.fn = "clampCameraToBounds" /\ lastCall.result # <<>>)
    => OnRay(TargetCoordinate, lastCall.args[1], lastCall.result[1])

----------------------------------------------------------------------------
(* Properties of the tick angle *)

\* C25: the angle of a rotating tick is at most AUTO_ROTATE_SPEED * (1/30 s)
\* whatever the time since the previous rotating tick, and the first rotating
\* tick uses 1/60 s.
C25_TickAngleCapped ==
    [][rotateCalls' # rotateCalls
         => ( /\ lastAngle' >= 0
              /\ lastAngle' <= MAX_TICK_ANGLE
              /\ lastTickTs = 0 => lastAngle' = FIRST_TICK_ANGLE )]_vars

\* C25 happens: a rotating tick came more than a cooldown after the previous
\* one (ticks were skipped after a wheel input) and rotated by the cap
C25_CappedAfterPause ==
    /\ lastTickTs = now
    /\ lastInteractionTs > WHEEL_COOLDOWN_MS
    /\ lastTickTs - lastInteractionTs >= WHEEL_COOLDOWN_MS
    /\ lastAngle = MAX_TICK_ANGLE

----------------------------------------------------------------------------
(* Properties of the surface floor *)

\* C26: the surface-floor check changes the camera only when the recorded
\* mode is venue and the camera is below the ellipsoid; then it sets the
\* camera at height 0 over the same point with the same look direction, and
\* the up vector has a non-zero cross product with the look direction.
C26_FloorKeepsViewValid ==
    lastCall.fn = "clampCameraAboveSurface" =>
        LET cam == lastCall.args[1] IN
        /\ (lastCall.result # <<>>)
             <=> (currentViewMode = "venue" /\ cam.height < 0)
        /\ lastCall.result # <<>> =>
             LET set == lastCall.result[1] IN
             /\ set.lon = cam.lon /\ set.lat = cam.lat /\ set.height = 0
             /\ set.destination = cartographicToCartesian(cam.lon, cam.lat)
             /\ set.direction = cam.direction
             /\ magnitude(cross(set.direction, set.up)) > 0

\* C26 happens: the camera was below the surface looking along the east
\* vector, and the up vector came from cross(direction, radial)
C26_LookingEast ==
    /\ lastCall.fn = "clampCameraAboveSurface"
    /\ lastCall.result # <<>>
    /\ lastCall.result[1].from = "radial"

----------------------------------------------------------------------------
(* Properties of the tracked entity *)

\* C27: in every quiescent state an entity is tracked if and only if the
\* view mode is venue, and the tracked entity is the marker of the selected
\* stop.
C27_TrackedIffVenue ==
    Quiescent =>
        /\ (trackedEntity # None) <=> (viewMode = "venue")
        /\ trackedEntity # None =>
             (selectedStopId # None /\ trackedEntity = selectedStopId)

----------------------------------------------------------------------------
(* Properties of the mode recorded in the zoom governor *)

\* C28: in every quiescent state the mode recorded in the zoom governor is
\* the view mode of the application; it is overview again after a return to
\* the overview.
C28_GovernorModeFollows ==
    Quiescent => currentViewMode = viewMode

----------------------------------------------------------------------------
(* Properties of the coordinate guards *)

\* C29: a stop lacks coordinates only when its lat or lng is null: the
\* commit of the selection of a stop whose lat and lng are both given, zero
\* included, issues a flight, and so does the work of an overview request
\* whose anchor stop has both.
C29_ZeroIsACoordinate ==
    [][ /\ ( /\ selectedStopId # None
             /\ renderedSelectedStopId # selectedStopId
             /\ renderedSelectedStopId' = selectedStopId
             /\ NotNullish(StopTable[selectedStopId].lat)
             /\ NotNullish(StopTable[selectedStopId].lng) )
           => (flightsIssued' = flightsIssued + 1
               /\ flight'.kind \in {"venue", "pose"})
        /\ \A i \in 1..Len(log) :
             ( /\ log[i].kind = "overview"
               /\ NotNullish(StopTable[log[i].stop].lat)
               /\ NotNullish(StopTable[log[i].stop].lng)
               /\ taskPc[i] = "fadeIn" /\ taskPc'[i] # "fadeIn" )
             => (flightsIssued' = flightsIssued + 1
                 /\ flight'.kind = "overview") ]_vars

----------------------------------------------------------------------------
(* Properties of the pre-render listener *)

\* C30: scene.preRender never holds more than one tick listener of the
\* controller; it holds none after setViewMode('venue') or destroy and one
\* after initialize, setViewMode('overview') or flyToOverview. The last of
\* these calls is read from autoRotateEnabled, which the first two set to
\* false, the other three to true, and nothing else writes.
C30_OneTickListener ==
    /\ preRenderListeners \in {0, 1}
    /\ preRenderRegistered <=> (preRenderListeners = 1)
    /\ autoRotateEnabled <=> (preRenderListeners = 1)
    /\ lastCall.fn \in {"initialize", "flyToOverview", "destroy"}
         => lastCall.result[1] = (IF lastCall.fn = "destroy" THEN 0 ELSE 1)

\* C30 happens: the controller was destroyed while it rotated, and a later
\* setViewMode('overview') registered its listener again, the only one
C30_RegisteredAgain ==
    /\ lastCall.fn = "destroy"
    /\ rotateCalls = 1
    /\ autoRotateEnabled
    /\ preRenderListeners = 1

====
